---- MODULE Spec2Model ----
(***************************************************************************)
(* State-machine model of the microbridge ADB host protocol engine         *)
(* (src/src/mcu/adb.c): the connection table, the poll step, the retry     *)
(* gate, the frame handlers, the USB hot-plug handler and the write path.  *)
(*                                                                         *)
(* The engine is single threaded.  Every API call is one action, except    *)
(* adb_poll, which is cut at the payload reads of adb_handleWrite: the     *)
(* while loop of that handler reads from the transport once per iteration  *)
(* and need not terminate, so each iteration is a step of its own          *)
(* (pc = "recv" while the loop is running).                                *)
(*                                                                         *)
(* The variables log, ret and op record the current (or last) API call:   *)
(* which call it is (op), what it did that is visible outside the engine   *)
(* (log: every call of adb_fireEvent and every message handed to the       *)
(* transport, in order) and what it returned (ret).  The variable opens is *)
(* a history: the OPEN messages written for a connection that is not       *)
(* persistent since adb_addConnection initialised it.                      *)
(***************************************************************************)
EXTENDS Integers, Sequences, FiniteSets, TLC

VARIABLES
    adbDevice,        \* static usb_device * adbDevice (NULL or a device id)
    connected,        \* static boolean connected
    eventHandler,     \* adb_eventHandler * eventHandler (process wide)
    connections,      \* static adb_connection connections[ADB_MAX_CONNECTIONS]
    now,              \* the value avr_millis() returns
    pc,               \* "idle" between API calls, "recv" inside adb_handleWrite's loop
    inHandler,        \* a handler called for the chunk read last is running
    cur,              \* adb_poll's loop index i while adb_handleWrite runs, else -1
    bytesLeft,        \* adb_handleWrite's local bytesLeft
    previousStatus,   \* adb_handleWrite's local previousStatus
    hdr,              \* adb_poll's local message while adb_handleWrite runs
    log,              \* events fired and messages written by the current/last call
    ret,              \* return value of the last API call that returns one
    op,               \* the current/last API call
    opens             \* history: OPEN messages written for a one-shot connection

vars == <<adbDevice, connected, eventHandler, connections, now, pc, inHandler, cur,
          bytesLeft, previousStatus, hdr, log, ret, op, opens>>

----------------------------------------------------------------------------
(* Sizes.  The header adb.h is not among the sources; the sizes it fixes   *)
(* are stood in for by small values, but for the packet and header sizes.  *)

\* number of slots of the connection table
ADB_MAX_CONNECTIONS == 2
\* size of adb_connection.connectionString, terminating zero included
ADB_CONNECTSTRING_LENGTH == 3
\* retry interval of the open gate, in clock ticks
ADB_CONNECTION_RETRY_TIME == 1
\* largest step of the clock between two API calls
MaxTick == 1
\* avr_millis() is an unsigned counter that wraps.  It wraps here at the
\* smallest value that keeps the proportion of the program's clock: the
\* values at which a retry is due (more than the interval, less than a
\* lap) are at least as many as the clock can advance between two calls.
MILLIS_MODULUS == ADB_CONNECTION_RETRY_TIME + MaxTick + 1
\* the settle delay avr_delay(500) of the handshake, in clock ticks
SettleDelay == 1
\* entries kept in log; further entries of one call are dropped
MaxLog == 10
\* the history opens counts up to this value
MaxOpens == 2
\* adb_handleWrite's bytesLeft is a uint32_t that a failing read (-1) makes
\* grow; reads that would take it beyond this value are not offered
MaxBytesLeft == 1024

----------------------------------------------------------------------------
(* Program constants.                                                      *)

NULL == "NULL"
ADB_CLASS == 255
ADB_SUBCLASS == 66
ADB_PROTOCOL == 1
MAX_BUF_SIZE == 256
\* uint16_t dataSize, dataRead (adb.h) wrap at 2^16
DATAREAD_MODULUS == 65536
\* sizeof(adb_message): six 32-bit fields
ADB_MESSAGE_SIZE == 24
\* size of one bulk transfer
ADB_USB_PACKETSIZE == 64

\* a faulty transport delivers in full once dataRead has reached two packets
MaxStall == 2 * ADB_USB_PACKETSIZE

\* 32-bit command words as <<high half, low half>>
A_SYNC == <<17230, 22867>>
A_CNXN == <<20056, 20035>>
A_OPEN == <<20037, 20559>>
A_OKAY == <<22849, 19279>>
A_CLSE == <<17747, 19523>>
A_WRTE == <<17748, 21079>>

\* w ^ 0xffffffff on a 32-bit word
XorOnes(w) == <<65535 - w[1], 65535 - w[2]>>

Slots == 0..(ADB_MAX_CONNECTIONS - 1)
NoConn == 0 - 1

\* the handler functions the application registers
ConnHandler == "connHandler"
GlobalHandler == "globalHandler"

Min(a, b) == IF a < b THEN a ELSE b

RECURSIVE Sum(_)
Sum(s) == IF s = <<>> THEN 0 ELSE Head(s) + Sum(Tail(s))

\* "host::microbridge", the identity sent with CONNECT
HostString == <<104, 111, 115, 116, 58, 58, 109, 105, 99, 114, 111, 98, 114, 105, 100, 103, 101>>

----------------------------------------------------------------------------
(* Log entries.                                                            *)

\* adb_fireEvent was called with (connection c, event type t, length n) and
\* called the handlers in calls, in that order
Ev(c, t, n, calls) ==
    [k |-> "ev", calls |-> calls, c |-> c, t |-> t, cmd |-> <<0, 0>>, a0 |-> 0,
     a1 |-> 0, n |-> n, check |-> 0, sent |-> ""]

\* a message was handed to the transport; sent tells how far it got:
\* "all", "header" (payload write failed), "none" (header write failed) or
\* "payload" (header write failed and the payload was written all the same)
Tx(cmd, a0, a1, n, check, sent) ==
    [k |-> "tx", calls |-> <<>>, c |-> NoConn, t |-> "", cmd |-> cmd, a0 |-> a0, a1 |-> a1,
     n |-> n, check |-> check, sent |-> sent]

AppendLog(lg, e) == IF Len(lg) < MaxLog THEN Append(lg, e) ELSE lg

----------------------------------------------------------------------------
(* The statically zero-initialised connection record.                      *)

EmptyConnection ==
    [status |-> "UNUSED", localID |-> 0, remoteID |-> 0, reconnect |-> FALSE,
     lastConnectionAttempt |-> 0, connectionString |-> <<>>, eventHandler |-> NULL,
     dataRead |-> 0, dataSize |-> 0]

NoMsg ==
    [command |-> <<0, 0>>, arg0 |-> 0, arg1 |-> 0, data_length |-> 0,
     data_check |-> 0, magic |-> <<0, 0>>]

NoHdr == [n |-> 0 - 1, m |-> NoMsg]

\* an API call: its name, the connection it is about and, for an adb_poll
\* that got as far as reading, what became of the header ("none", "dropped"
\* or "message")
Op(name, c, rx) == [name |-> name, c |-> c, rx |-> rx]

NoOp == Op("", NoConn, "")

Init ==
    /\ adbDevice = NULL
    /\ connected = FALSE
    /\ eventHandler = NULL
    /\ connections = [i \in Slots |-> EmptyConnection]
    /\ now = 0
    /\ pc = "idle"
    /\ inHandler = FALSE
    /\ cur = NoConn
    /\ bytesLeft = 0
    /\ previousStatus = "UNUSED"
    /\ hdr = NoHdr
    /\ log = <<>>
    /\ ret = 0
    /\ op = NoOp
    /\ opens = [i \in Slots |-> 0]

----------------------------------------------------------------------------
(* Bookkeeping shared by the calls.                                        *)

Record(lg, r, o) ==
    /\ log' = lg
    /\ ret' = r
    /\ op' = o

\* adb_poll's message lives as long as adb_handleWrite runs
KeepHdr(pc1, h) == IF pc1 = "recv" THEN h ELSE NoHdr

\* the engine is between two calls of the application's main loop
Idle == pc = "idle"

\* adb_handleWrite has read a chunk and adb_fireEvent has delivered its
\* event to a handler: the handler is running, and it may call any function
\* of the engine (adb_fireEvent, lines 41-46, calls it in line).  When the
\* event of the chunk read last found no handler, nothing of the
\* application runs before the next read.
InReceiveHandler == pc = "recv" /\ inHandler

\* a call of the public API can start: from the main loop, or from the
\* handler of ADB_CONNECTION_RECEIVE.  (The calls the handlers of the other
\* events make are inputs of the step that fires the event, see
\* adb_fireEvent.)
CallAllowed == Idle \/ InReceiveHandler

\* a call from a handler adds to the record of the poll that called it
CallLog == IF pc = "idle" THEN <<>> ELSE log

----------------------------------------------------------------------------
(* adb_setEventHandler                                                     *)

adb_setEventHandler(handler) ==
    /\ CallAllowed
    /\ eventHandler' = handler
    /\ Record(CallLog, 0, Op("setEventHandler", NoConn, ""))
    /\ hdr' = KeepHdr(pc, hdr)
    /\ UNCHANGED <<adbDevice, connected, connections, now, pc, inHandler, cur,
                   bytesLeft, previousStatus, opens>>

----------------------------------------------------------------------------
(* The handlers adb_fireEvent calls: the process-wide handler first, then   *)
(* the connection's.                                                       *)

\* a dispatcher that serves the connection's handler first
HandlersCalled_OwnFirst(global, own) ==
    (IF own /= NULL THEN <<own>> ELSE <<>>)
    \o (IF global /= NULL THEN <<global>> ELSE <<>>)

\* the handlers one call of adb_fireEvent calls, in order
HandlersCalled(global, own) ==
    (IF global /= NULL THEN <<global>> ELSE <<>>)
    \o (IF own /= NULL THEN <<own>> ELSE <<>>)

----------------------------------------------------------------------------
(* adb_addConnection                                                       *)

\* a length check that forgets the terminating zero
StringTooLong_NoTerminator(connectionString) ==
    Len(connectionString) > ADB_CONNECTSTRING_LENGTH

\* strlen(connectionString)+1 > ADB_CONNECTSTRING_LENGTH
StringTooLong(connectionString) ==
    Len(connectionString) + 1 > ADB_CONNECTSTRING_LENGTH

\* snprintf(dst, ADB_CONNECTSTRING_LENGTH, "%s", src)
Snprintf(src) ==
    SubSeq(src, 1, Min(Len(src), ADB_CONNECTSTRING_LENGTH - 1))

\* the for loop: the first index at or after i whose slot is UNUSED, or -1
RECURSIVE FindUnused(_, _)
FindUnused(cs, i) ==
    IF i >= ADB_MAX_CONNECTIONS THEN NoConn
    ELSE IF cs[i].status = "UNUSED" THEN i
    ELSE FindUnused(cs, i + 1)

\* a table that numbers every record 1
NewLocalID_One(index) == 1

\* localID of the record initialised in slot index
NewLocalID(index) == index + 1

\* the record after "Initialise the record"; the fields not assigned keep
\* their old values
InitRecord(old, index, connectionString, reconnect, handler) ==
    [old EXCEPT !.connectionString = Snprintf(connectionString),
                !.localID = NewLocalID(index),
                !.status = "CLOSED",
                !.lastConnectionAttempt = 0,
                !.reconnect = reconnect,
                !.eventHandler = handler]

adb_addConnection(connectionString, reconnect, handler) ==
    /\ CallAllowed
    /\ \E index \in {IF StringTooLong(connectionString) THEN NoConn
                      ELSE FindUnused(connections, 0)} :
           /\ Record(CallLog, index, Op("addConnection", NoConn, ""))
           /\ connections' =
                IF index = NoConn THEN connections
                ELSE [connections EXCEPT ![index] =
                        InitRecord(@, index, connectionString, reconnect, handler)]
           /\ opens' = IF index = NoConn THEN opens ELSE [opens EXCEPT ![index] = 0]
    /\ hdr' = KeepHdr(pc, hdr)
    /\ UNCHANGED <<adbDevice, connected, eventHandler, now, pc, inHandler, cur,
                   bytesLeft, previousStatus>>

----------------------------------------------------------------------------
(* Message writers.  wr names the transport's behaviour during the call:   *)
(* what usb_bulkWrite returns for the write of a header and for the write  *)
(* of a payload.  The result is [log, rc].                                 *)

\* the int usb_bulkWrite returns for the given part ("hdr" or "pay") of a
\* message: 0 for success; a failure is reported as 1, as -1, or as 256
BulkWriteCodes(wr) ==
    IF wr = "ok" THEN <<0, 0>>
    ELSE IF wr = "hdr" THEN <<1, 0>>
    ELSE IF wr = "pay" THEN <<0, 1>>
    ELSE IF wr = "hdrNeg" THEN <<0 - 1, 0>>
    ELSE IF wr = "payNeg" THEN <<0, 0 - 1>>
    ELSE IF wr = "hdrWrap" THEN <<256, 0>>
    ELSE <<0, 256>>

usb_bulkWrite(wr, part) == BulkWriteCodes(wr)[IF part = "hdr" THEN 1 ELSE 2]

\* conversion of an int to uint8_t (uint8_t rcode)
Uint8(x) == x % 256

\* which parts of a message the transport took, given what it returned for
\* the header and whether and with what result the payload was written
Sent(hdrCode, payWritten, payCode) ==
    IF hdrCode = 0 /\ payWritten /\ payCode = 0 THEN "all"
    ELSE IF hdrCode = 0 THEN "header"
    ELSE IF payWritten /\ payCode = 0 THEN "payload"
    ELSE "none"

\* returns what usb_bulkWrite returned, as an int
adb_writeEmptyMessage(lg, command, arg0, arg1, wr) ==
    [log |-> AppendLog(lg, Tx(command, arg0, arg1, 0, 0,
                              IF usb_bulkWrite(wr, "hdr") = 0 THEN "all" ELSE "none")),
     rc  |-> usb_bulkWrite(wr, "hdr")]

\* rcode is a uint8_t: the payload is written when the code of the header
\* write is 0 as a uint8_t, and the code returned is that of the last write
adb_writeMessage(lg, command, arg0, arg1, data, wr) ==
    LET rcode1 == Uint8(usb_bulkWrite(wr, "hdr"))
        rcode2 == Uint8(usb_bulkWrite(wr, "pay"))
    IN  [log |-> AppendLog(lg, Tx(command, arg0, arg1, Len(data), Sum(data),
                                  Sent(usb_bulkWrite(wr, "hdr"), rcode1 = 0,
                                       usb_bulkWrite(wr, "pay")))),
         rc  |-> IF rcode1 /= 0 THEN rcode1 ELSE rcode2]

\* the payload is the string and its terminating zero
adb_writeStringMessage(lg, command, arg0, arg1, str, wr) ==
    adb_writeMessage(lg, command, arg0, arg1, Append(str, 0), wr)

----------------------------------------------------------------------------
(* adb_write and adb_writeString                                           *)

\* the link to the device is up: a device is attached and has answered the
\* handshake
LinkUp == adbDevice /= NULL /\ connected

\* early returns that forget the status of the connection
WriteCheck_LinkOnly(c) ==
    IF adbDevice = NULL \/ ~connected THEN 0 - 1 ELSE 0

\* the two early returns both functions start with: -1 without a working
\* ADB link, -2 when the connection is not open for writing, 0 to go on
WriteCheckOf(dev, conn, status) ==
    IF dev = NULL \/ ~conn THEN 0 - 1
    ELSE IF status /= "OPEN" THEN 0 - 2
    ELSE 0

\* the check on the engine's variables
WriteCheck(c) == WriteCheckOf(adbDevice, connected, connections[c].status)

\* status after the message writer returned rc
StatusAfterWrite(status, rc) == IF rc = 0 THEN "WRITING" ELSE status

WriteCall(name, c, w) ==
    /\ CallAllowed
    /\ \E chk \in {WriteCheck(c)} :
         IF chk /= 0
         THEN /\ Record(CallLog, chk, Op(name, c, ""))
              /\ UNCHANGED connections
         ELSE /\ Record(w.log, w.rc, Op(name, c, ""))
              /\ connections' =
                   [connections EXCEPT ![c].status = StatusAfterWrite(@, w.rc)]
    /\ hdr' = KeepHdr(pc, hdr)
    /\ UNCHANGED <<adbDevice, connected, eventHandler, now, pc, inHandler, cur,
                   bytesLeft, previousStatus, opens>>

adb_write(c, data, wr) ==
    WriteCall("write", c,
              adb_writeMessage(CallLog, A_WRTE, connections[c].localID,
                               connections[c].remoteID, data, wr))

adb_writeString(c, str, wr) ==
    WriteCall("writeString", c,
              adb_writeStringMessage(CallLog, A_WRTE, connections[c].localID,
                                     connections[c].remoteID, str, wr))

----------------------------------------------------------------------------
(* adb_init: resets the link state; the connection table is not touched.   *)

adb_init ==
    /\ CallAllowed
    /\ adbDevice' = NULL
    /\ connected' = FALSE
    /\ Record(CallLog, 0, Op("init", NoConn, ""))
    /\ hdr' = KeepHdr(pc, hdr)
    /\ UNCHANGED <<eventHandler, connections, now, pc, inHandler, cur, bytesLeft,
                   previousStatus, opens>>

----------------------------------------------------------------------------
(* adb_fireEvent.  The handlers are called in line, in the middle of the   *)
(* call that fires the event, and a handler may call the engine.  The      *)
(* variables such a call reads and writes are threaded through the call    *)
(* that fires the event as a record w (the world):                         *)
(*   adbDevice, connected, eventHandler, conns (the connection table),     *)
(*   log, and added (history: the slots adb_addConnection initialised).    *)
(* What the handlers do is an input hb of the call that fires the event:   *)
(* the handler hb.who, called for an event of type hb.on about connection  *)
(* hb.at, makes the call hb.call of the public API and returns; every      *)
(* other invocation returns without calling the engine.  A handler does    *)
(* not call adb_poll.                                                      *)

World(dev, conn, handler, cs, lg) ==
    [adbDevice |-> dev, connected |-> conn, eventHandler |-> handler, conns |-> cs,
     log |-> lg, added |-> {}]

\* a call of the public API: f names the function, the other fields are its
\* arguments (c the connection, h the handler, wr the transport's behaviour
\* during the call)
ApiCall(f, c, h, str, reconnect, data, wr) ==
    [f |-> f, c |-> c, h |-> h, str |-> str, reconnect |-> reconnect, data |-> data,
     wr |-> wr]

\* handlers that return without calling the engine
Quiet ==
    [who |-> NULL, on |-> "", at |-> NoConn,
     call |-> ApiCall("none", NoConn, NULL, <<>>, FALSE, <<>>, "ok")]

\* adb_write or adb_writeString called on the world; m is what the message
\* writer does
WriteOn(w, c, m) ==
    IF WriteCheckOf(w.adbDevice, w.connected, w.conns[c].status) /= 0 THEN w
    ELSE [w EXCEPT !.log = m.log, !.conns[c].status = StatusAfterWrite(@, m.rc)]

\* adb_addConnection called on the world
AddOn(w, connectionString, reconnect, handler) ==
    LET index == IF StringTooLong(connectionString) THEN NoConn
                 ELSE FindUnused(w.conns, 0)
    IN  IF index = NoConn THEN w
        ELSE [w EXCEPT !.conns[index] =
                           InitRecord(@, index, connectionString, reconnect, handler),
                       !.added = @ \cup {index}]

\* the world after a handler made the call
HandlerCall(w, call) ==
    IF call.f = "setEventHandler" THEN [w EXCEPT !.eventHandler = call.h]
    ELSE IF call.f = "addConnection" THEN AddOn(w, call.str, call.reconnect, call.h)
    ELSE IF call.f = "write"
         THEN WriteOn(w, call.c,
                      adb_writeMessage(w.log, A_WRTE, w.conns[call.c].localID,
                                       w.conns[call.c].remoteID, call.data, call.wr))
    ELSE IF call.f = "writeString"
         THEN WriteOn(w, call.c,
                      adb_writeStringMessage(w.log, A_WRTE, w.conns[call.c].localID,
                                             w.conns[call.c].remoteID, call.data, call.wr))
    ELSE IF call.f = "init" THEN [w EXCEPT !.adbDevice = NULL, !.connected = FALSE]
    ELSE w

\* the handlers of calls are called one after the other for the event
RECURSIVE RunHandlers(_, _, _, _, _)
RunHandlers(w, calls, c, type, hb) ==
    IF calls = <<>> THEN w
    ELSE RunHandlers(IF hb.who = Head(calls) /\ hb.on = type /\ hb.at = c
                     THEN HandlerCall(w, hb.call) ELSE w,
                     Tail(calls), c, type, hb)

\* the handler of the connection is read when the process-wide handler has
\* returned, which may have called adb_addConnection on a slot that is UNUSED
adb_fireEvent(w, c, type, length, hb) ==
    LET first == HandlersCalled(w.eventHandler, NULL)
        own   == IF c /= NoConn
                 THEN RunHandlers(w, first, c, type, hb).conns[c].eventHandler
                 ELSE NULL
        calls == HandlersCalled(w.eventHandler, own)
    IN  RunHandlers([w EXCEPT !.log = AppendLog(@, Ev(c, type, length, calls))],
                    calls, c, type, hb)

----------------------------------------------------------------------------
(* The clock advances between API calls; the record of the last call is   *)
(* cleared.                                                                *)

Tick(d) ==
    /\ Idle
    /\ now' = (now + d) % MILLIS_MODULUS
    /\ Record(<<>>, 0, Op("tick", NoConn, ""))
    /\ UNCHANGED <<adbDevice, connected, eventHandler, connections, pc, inHandler,
                   cur, bytesLeft, previousStatus, hdr, opens>>

----------------------------------------------------------------------------
(* Frame handlers.  w is the world when the handler is called and hb what  *)
(* the application's handlers do; each returns the world it leaves.        *)

\* a close that does not look at the status
CloseEvent_AlwaysClose(status) == "ADB_CONNECTION_CLOSE"

\* the event adb_handleClose fires for a connection in the given status
CloseEvent(status) ==
    IF status = "OPENING" THEN "ADB_CONNECTION_FAILED" ELSE "ADB_CONNECTION_CLOSE"

\* a close that gives back the persistent connections and keeps the others
ClosedStatus_Swapped(reconnect) == IF reconnect THEN "UNUSED" ELSE "CLOSED"

\* a close that gives every slot back
ClosedStatus_GiveBack(reconnect) == "UNUSED"

\* a close that keeps every slot
ClosedStatus_Keep(reconnect) == "CLOSED"

\* the status adb_handleClose leaves
ClosedStatus(reconnect) == IF reconnect THEN "CLOSED" ELSE "UNUSED"

\* the event is fired first; the status is set when the handlers have
\* returned
adb_handleClose(w, i, hb) ==
    LET w1 == adb_fireEvent(w, i, CloseEvent(w.conns[i].status), 0, hb)
    IN  [w1 EXCEPT !.conns[i].status = ClosedStatus(w1.conns[i].reconnect)]

\* the first if of adb_handleOkay: the OKAY answers an OPEN
OkayOpens(status) == status = "OPENING"

\* an OKAY that opens whatever it is addressed to
OkayAcks_Any(status) == status /= "UNUSED"

\* the second if of adb_handleOkay: the OKAY answers a WRITE
OkayAcks(status) == status = "WRITING"

\* the second if reads the status again, after the handlers of
\* ADB_CONNECTION_OPEN have returned
adb_handleOkay(w, i, message, hb) ==
    LET w1 == IF OkayOpens(w.conns[i].status)
              THEN adb_fireEvent([w EXCEPT !.conns[i].status = "OPEN",
                                           !.conns[i].remoteID = message.arg0],
                                 i, "ADB_CONNECTION_OPEN", 0, hb)
              ELSE w
    IN  IF OkayAcks(w1.conns[i].status)
        THEN [w1 EXCEPT !.conns[i].status = "OPEN"]
        ELSE w1

\* adb_handleWrite up to its while loop
HandleWriteBegin(cs, i, message) ==
    [cs EXCEPT ![i].status = "RECEIVING",
               ![i].dataRead = 0,
               ![i].dataSize = message.data_length % DATAREAD_MODULUS]

\* a sweep that closes every slot in use
NeedsClose_InUse(status) == status /= "UNUSED"

\* the connections adb_closeAll closes
NeedsClose(status) == ~(status = "UNUSED" \/ status = "CLOSED")

\* the for loop of adb_closeAll from index i on
RECURSIVE CloseFrom(_, _, _)
CloseFrom(w, i, hb) ==
    IF i >= ADB_MAX_CONNECTIONS THEN w
    ELSE IF NeedsClose(w.conns[i].status)
         THEN CloseFrom(adb_handleClose(w, i, hb), i + 1, hb)
         ELSE CloseFrom(w, i + 1, hb)

adb_closeAll(w, hb) == CloseFrom(w, 0, hb)

\* the payload length adb_handleConnect reads and reports
ConnectLength(message) ==
    IF message.data_length < MAX_BUF_SIZE THEN message.data_length ELSE MAX_BUF_SIZE

\* connected is set before the event is fired
adb_handleConnect(w, message, hb) ==
    adb_fireEvent([w EXCEPT !.connected = TRUE], NoConn, "ADB_CONNECT",
                  ConnectLength(message), hb)

----------------------------------------------------------------------------
(* The retry gate.                                                         *)

\* avr_millis() - lastConnectionAttempt in the counter's unsigned arithmetic
TimeSince(t, lastConnectionAttempt) == (t - lastConnectionAttempt) % MILLIS_MODULUS

\* a gate that opens as soon as the interval has elapsed
RetryDue_AtInterval(timeSinceLastConnect) ==
    timeSinceLastConnect >= ADB_CONNECTION_RETRY_TIME

RetryDue(timeSinceLastConnect) == timeSinceLastConnect > ADB_CONNECTION_RETRY_TIME

\* the status adb_openClosedConnections leaves, whatever the write returned
StatusAfterOpen(rc) == "OPENING"

\* The for loop from index i on.  wr is the transport's behaviour during
\* the poll, one outcome per message the engine writes, in the order of the
\* messages; k messages have been written so far.
RECURSIVE OpenFrom(_, _, _, _, _, _)
OpenFrom(cs, lg, wr, k, t, i) ==
    IF i >= ADB_MAX_CONNECTIONS THEN [conns |-> cs, log |-> lg]
    ELSE IF cs[i].status = "CLOSED" /\ RetryDue(TimeSince(t, cs[i].lastConnectionAttempt))
         THEN LET w == adb_writeStringMessage(lg, A_OPEN, cs[i].localID, 0,
                                              cs[i].connectionString, wr[k + 1])
              IN  OpenFrom([cs EXCEPT ![i].lastConnectionAttempt = t,
                                      ![i].status = StatusAfterOpen(w.rc)],
                           w.log, wr, k + 1, t, i + 1)
         ELSE OpenFrom(cs, lg, wr, k, t, i + 1)

adb_openClosedConnections(cs, lg, wr, t) == OpenFrom(cs, lg, wr, 0, t, 0)

----------------------------------------------------------------------------
(* adb_pollMessage: rd is what usb_bulkRead returned, [n, m] with n the    *)
(* byte count (negative: no transfer) and m the bytes read as a header.    *)

\* a check that accepts every magic
MagicOk_Any(message) == TRUE

MagicOk(message) == message.magic = XorOnes(message.command)

adb_pollMessage(rd) ==
    IF rd.n < 0 THEN FALSE
    ELSE IF ~MagicOk(rd.m) THEN FALSE
    ELSE IF rd.n /= ADB_MESSAGE_SIZE THEN FALSE
    ELSE TRUE

----------------------------------------------------------------------------
(* The USB layer's events.  A configuration read from a device is          *)
(* [bytesRead, buf]: what usb_getConfigurationDescriptor returned and the  *)
(* bytes it put into buf.                                                  *)

\* bDescriptorType of the descriptors adb_isAdbDevice looks at
USB_DESCRIPTOR_CONFIGURATION == 2
USB_DESCRIPTOR_INTERFACE == 4
USB_DESCRIPTOR_ENDPOINT == 5

\* buf[k]; the bytes of buf behind those the transfer wrote were never
\* initialised
Filled(config, k) == k < config.bytesRead /\ k < Len(config.buf)

ByteAt(config, k) == IF Filled(config, k) THEN config.buf[k + 1] ELSE 0

\* whether usb_isAdbInterface reads a byte that was never written: it reads
\* bNumEndpoints and, when that is 2, the protocol, the class and the
\* subclass
InterfaceStale(config, pos) ==
    \/ ~Filled(config, pos + 4)
    \/ ByteAt(config, pos + 4) = 2 /\ ~Filled(config, pos + 7)

\* the usb_interfaceDescriptor at buf + pos
InterfaceAt(config, pos) ==
    [bInterfaceNumber   |-> ByteAt(config, pos + 2),
     bNumEndpoints      |-> ByteAt(config, pos + 4),
     bInterfaceClass    |-> ByteAt(config, pos + 5),
     bInterfaceSubClass |-> ByteAt(config, pos + 6),
     bInterfaceProtocol |-> ByteAt(config, pos + 7)]

usb_isAdbInterface(interface) ==
    IF interface.bNumEndpoints /= 2 THEN FALSE
    ELSE IF interface.bInterfaceProtocol /= ADB_PROTOCOL THEN FALSE
    ELSE IF interface.bInterfaceClass /= ADB_CLASS THEN FALSE
    ELSE IF interface.bInterfaceSubClass /= ADB_SUBCLASS THEN FALSE
    ELSE TRUE

\* The while loop of adb_isAdbDevice from pos on.  p is
\* [config, interface, ret, null, stale]: whether the pointers config and
\* interface are set, the value of ret, whether a NULL pointer has been
\* dereferenced (config in line 506, interface in line 517) and whether a
\* byte of buf has been read that was never written.  The result is p and
\* hang: a descriptor of length 0 never lets pos advance.  (Line 517 also
\* reads handle->interface, which is not initialised before the first ADB
\* interface: the comparison decides which endpoint addresses are stored
\* in handle and nothing of the engine's state.)
RECURSIVE ScanFrom(_, _, _)
ScanFrom(config, pos, p) ==
    IF pos >= config.bytesRead THEN [p EXCEPT !.hang = FALSE]
    ELSE LET descriptorLength == ByteAt(config, pos)
             descriptorType   == ByteAt(config, pos + 1)
             isAdb == usb_isAdbInterface(InterfaceAt(config, pos))
             q == IF descriptorType = USB_DESCRIPTOR_CONFIGURATION
                  THEN [p EXCEPT !.config = TRUE]
                  ELSE IF descriptorType = USB_DESCRIPTOR_INTERFACE
                  THEN [p EXCEPT !.interface = TRUE,
                                 !.ret = @ \/ isAdb,
                                 !.null = @ \/ (isAdb /\ ~p.config),
                                 !.stale = @ \/ InterfaceStale(config, pos)]
                  ELSE IF descriptorType = USB_DESCRIPTOR_ENDPOINT
                  THEN [p EXCEPT !.null = @ \/ ~p.interface,
                                 !.stale = @ \/ ~Filled(config, pos + 2)]
                  ELSE p
             r == [q EXCEPT !.stale = @ \/ ~Filled(config, pos + 1)]
         IN  IF descriptorLength = 0 THEN [r EXCEPT !.hang = TRUE]
             ELSE ScanFrom(config, pos + descriptorLength, r)

\* What a call of adb_isAdbDevice comes to: it returns true ("adb") or false
\* ("other"), it never returns ("hang"), or the process is killed
\* ("crash").  Dereferencing a NULL pointer kills the process or reads
\* whatever is at address 0, which decides nothing that is modelled here; a
\* byte of buf that was never written can have any value, and the call can
\* come to anything.
adb_isAdbDevice(config) ==
    IF config.bytesRead < 0 THEN {"other"}
    ELSE LET p == ScanFrom(config, 0,
                           [config |-> FALSE, interface |-> FALSE, ret |-> FALSE,
                            null |-> FALSE, stale |-> FALSE, hang |-> FALSE])
         IN  IF p.stale THEN {"adb", "other", "hang", "crash"}
             ELSE (IF p.null THEN {"crash"} ELSE {})
                  \cup {IF p.hang THEN "hang" ELSE IF p.ret THEN "adb" ELSE "other"}

\* descriptors as the bytes a device sends
ConfigurationBytes == <<9, 2, 32, 0, 1, 1, 0, 0, 0>>
AdbInterfaceBytes == <<9, 4, 0, 0, 2, 255, 66, 1, 0>>
StorageInterfaceBytes == <<9, 4, 0, 0, 2, 8, 6, 80, 0>>
EndpointBytes == <<7, 5, 129, 2, 64, 0, 0, 7, 5, 2, 2, 64, 0, 0>>

Configuration(buf) == [bytesRead |-> Len(buf), buf |-> buf]

\* The devices that can be plugged in: a phone with an ADB interface and a
\* mass-storage stick.
Devices == {"phone", "stick"}

\* Devices whose descriptors are not what the walk expects: one that fails
\* to deliver its configuration, one whose ADB interface is not preceded by
\* a configuration descriptor, one that sends an endpoint before any
\* interface, one with a descriptor of length 0, and one whose last
\* descriptor is cut off.
BrokenDevices == {"mute", "headless", "endpointFirst", "zeroLength", "cutOff"}

DeviceConfig(device) ==
    IF device = "phone"
    THEN Configuration(ConfigurationBytes \o AdbInterfaceBytes \o EndpointBytes)
    ELSE IF device = "stick"
    THEN Configuration(ConfigurationBytes \o StorageInterfaceBytes \o EndpointBytes)
    ELSE IF device = "mute" THEN [bytesRead |-> 0 - 1, buf |-> <<>>]
    ELSE IF device = "headless"
    THEN Configuration(AdbInterfaceBytes \o EndpointBytes)
    ELSE IF device = "endpointFirst"
    THEN Configuration(ConfigurationBytes \o EndpointBytes \o AdbInterfaceBytes)
    ELSE IF device = "zeroLength"
    THEN Configuration(ConfigurationBytes \o <<0, 4>> \o AdbInterfaceBytes
                       \o EndpointBytes)
    ELSE Configuration(ConfigurationBytes \o SubSeq(AdbInterfaceBytes, 1, 5))

\* An event of the USB layer that usb_poll delivers to adb_usbEventHandler;
\* probe is what the call of adb_isAdbDevice comes to that USB_CONNECT
\* makes ("none" for the events that do not call it).
UsbEvent(type, device, probe) == [type |-> type, device |-> device, probe |-> probe]

NoEvent == UsbEvent("NONE", NULL, "none")

EventsOf(devices) ==
    {NoEvent}
    \cup {UsbEvent("USB_DISCONNECT", d, "none") : d \in devices}
    \cup UNION {{UsbEvent("USB_CONNECT", d, o) : o \in adb_isAdbDevice(DeviceConfig(d))} :
                d \in devices}

UsbEvents == EventsOf(Devices)

\* whether USB_DISCONNECT is for the device in use
IsOurDevice(dev, device) == device = dev

\* adb_usbEventHandler when adb_isAdbDevice returns (event.probe is "adb" or
\* "other"); adb_initUsb sets adbDevice and nothing else of the engine
adb_usbEventHandler(w, event, hb) ==
    IF event.type = "USB_CONNECT"
    THEN IF event.probe = "adb" THEN [w EXCEPT !.adbDevice = event.device] ELSE w
    ELSE IF event.type = "USB_DISCONNECT" /\ IsOurDevice(w.adbDevice, event.device)
    THEN [adb_closeAll(w, hb) EXCEPT !.adbDevice = NULL, !.connected = FALSE]
    ELSE w

----------------------------------------------------------------------------
(* adb_poll.                                                               *)

\* a loop that goes by the local id alone
Addressed_AnyStatus(c, message) == c.localID = message.arg1

\* whether the for loop of adb_poll hands the message to slot i
Addressed(c, message) == c.status /= "UNUSED" /\ c.localID = message.arg1

\* The for loop of adb_poll from index i on.  OKAY and CLOSE are handled on
\* the spot; at a WRITE the loop is left with adb_handleWrite about to read
\* its first chunk: cur is the slot and prev its status before.  cur is -1
\* when the loop ran to its end.  The result is [w, cur, prev].
RECURSIVE Dispatch(_, _, _, _)
Dispatch(w, message, i, hb) ==
    IF i >= ADB_MAX_CONNECTIONS
    THEN [w |-> w, cur |-> NoConn, prev |-> "UNUSED"]
    ELSE IF ~Addressed(w.conns[i], message) THEN Dispatch(w, message, i + 1, hb)
    ELSE IF message.command = A_OKAY
         THEN Dispatch(adb_handleOkay(w, i, message, hb), message, i + 1, hb)
    ELSE IF message.command = A_CLSE
         THEN Dispatch(adb_handleClose(w, i, hb), message, i + 1, hb)
    ELSE IF message.command = A_WRTE
         THEN [w |-> [w EXCEPT !.conns = HandleWriteBegin(w.conns, i, message)],
               cur |-> i, prev |-> w.conns[i].status]
    ELSE Dispatch(w, message, i + 1, hb)

\* adb_poll from the message read on
HandleMessage(w, rd, hb) ==
    IF ~adb_pollMessage(rd)
    THEN [w |-> w, cur |-> NoConn, prev |-> "UNUSED"]
    ELSE Dispatch(IF rd.m.command = A_CNXN THEN adb_handleConnect(w, rd.m, hb) ELSE w,
                  rd.m, 0, hb)

\* what became of the header read
ReadClass(rd) ==
    IF rd.n < 0 THEN "none" ELSE IF adb_pollMessage(rd) THEN "message" ELSE "dropped"

PollOp(rx) == Op("poll", NoConn, rx)

\* what a poll leaves: the world w, the clock t, the position in the for
\* loop (d.cur, d.prev), the header and what became of it
Polled(w, t, d, rd, rx) ==
    [adbDevice |-> w.adbDevice, connected |-> w.connected,
     eventHandler |-> w.eventHandler, conns |-> w.conns, log |-> w.log,
     added |-> w.added, now |-> t, cur |-> d.cur, prev |-> d.prev, hdr |-> rd,
     rx |-> rx]

\* a poll that runs the retry gate whether or not the peer has answered the
\* handshake
PollWithDevice_AlwaysGate(u, wr, rd, hb) ==
    LET lg1 == IF ~u.connected
               THEN adb_writeStringMessage(u.log, A_CNXN, 16777216, 4096, HostString,
                                           wr[1]).log
               ELSE u.log
        t   == IF ~u.connected THEN (now + SettleDelay) % MILLIS_MODULUS ELSE now
        g   == adb_openClosedConnections(u.conns, lg1, wr, t)
        h   == HandleMessage([u EXCEPT !.conns = g.conns, !.log = g.log], rd, hb)
    IN  Polled(h.w, t, h, rd, ReadClass(rd))

\* adb_poll after usb_poll, with a device: the handshake, the retry gate,
\* the message.  u is the world usb_poll left.
PollWithDevice(u, wr, rd, hb) ==
    LET lg1 == IF ~u.connected
               THEN adb_writeStringMessage(u.log, A_CNXN, 16777216, 4096, HostString,
                                           wr[1]).log
               ELSE u.log
        t   == IF ~u.connected THEN (now + SettleDelay) % MILLIS_MODULUS ELSE now
        g   == IF u.connected
               THEN adb_openClosedConnections(u.conns, lg1, wr, t)
               ELSE [conns |-> u.conns, log |-> lg1]
        h   == HandleMessage([u EXCEPT !.conns = g.conns, !.log = g.log], rd, hb)
    IN  Polled(h.w, t, h, rd, ReadClass(rd))

\* the whole call up to its return or to the first payload read, when the
\* call of adb_isAdbDevice returns, if there is one
PollResult(event, wr, rd, hb) ==
    LET u == adb_usbEventHandler(World(adbDevice, connected, eventHandler, connections,
                                       <<>>),
                                 event, hb)
    IN  IF u.adbDevice = NULL
        THEN Polled(u, now, [cur |-> NoConn, prev |-> "UNUSED"], NoHdr, "")
        ELSE PollWithDevice(u, wr, rd, hb)

PcAfter(c) == IF c = NoConn THEN "idle" ELSE "recv"

\* the OPEN messages in lg that carry the given local id
OpensWritten(lg, localID) ==
    Cardinality({k \in DOMAIN lg :
                    lg[k].k = "tx" /\ lg[k].cmd = A_OPEN /\ lg[k].a0 = localID})

\* the history after a call that wrote lg: the OPEN messages written for the
\* connections of cs that are not persistent are added; a slot that a
\* handler initialised with adb_addConnection during the call starts anew
CountOpens(o, cs, lg, added) ==
    [i \in Slots |->
        IF i \in added THEN 0
        ELSE IF cs[i].status /= "UNUSED" /\ ~cs[i].reconnect
        THEN Min(o[i] + OpensWritten(lg, cs[i].localID), MaxOpens)
        ELSE o[i]]

\* usb_poll never returns when adb_isAdbDevice hangs or kills the process:
\* pc is "hang" or "crash" from then on, and no call is made any more
adb_poll(event, wr, rd, hb) ==
    /\ Idle
    /\ inHandler' = FALSE
    /\ IF event.probe \in {"hang", "crash"}
       THEN /\ pc' = event.probe
            /\ Record(<<>>, 0, PollOp(""))
            /\ hdr' = NoHdr
            /\ UNCHANGED <<adbDevice, connected, eventHandler, connections, now, cur,
                           bytesLeft, previousStatus, opens>>
       ELSE \E r \in {PollResult(event, wr, rd, hb)} :
               /\ adbDevice' = r.adbDevice
               /\ connected' = r.connected
               /\ eventHandler' = r.eventHandler
               /\ connections' = r.conns
               /\ now' = r.now
               /\ cur' = r.cur
               /\ previousStatus' = r.prev
               /\ pc' = PcAfter(r.cur)
               /\ bytesLeft' = IF r.cur = NoConn THEN 0 ELSE rd.m.data_length
               /\ hdr' = KeepHdr(PcAfter(r.cur), r.hdr)
               /\ Record(r.log, 0, PollOp(r.rx))
               /\ opens' = CountOpens(opens, connections, r.log, r.added)

\* the length of the next chunk adb_handleWrite asks for
ChunkLength(left) == IF left < ADB_USB_PACKETSIZE THEN left ELSE ADB_USB_PACKETSIZE

\* One iteration of adb_handleWrite's while loop; bytesRead is what
\* usb_bulkRead returned: at most the len bytes asked for, or a negative
\* error code.  bytesLeft -= bytesRead is uint32_t arithmetic; it cannot go
\* below 0 here, and MaxBytesLeft keeps it far from 2^32.  What the handlers
\* of ADB_CONNECTION_RECEIVE call are steps of their own (CallAllowed).
HandleWriteChunk(bytesRead) ==
    /\ pc = "recv"
    /\ bytesLeft > 0
    /\ bytesRead <= ChunkLength(bytesLeft)
    /\ bytesLeft - bytesRead <= MaxBytesLeft
    /\ LET len == ChunkLength(bytesLeft)
           cs  == [connections EXCEPT ![cur].dataRead = (@ + len) % DATAREAD_MODULUS]
       IN  /\ connections' = cs
           /\ Record(adb_fireEvent(World(adbDevice, connected, eventHandler, cs, log),
                                   cur, "ADB_CONNECTION_RECEIVE", len, Quiet).log,
                      0, Op("poll", NoConn, "message"))
           /\ bytesLeft' = bytesLeft - bytesRead
           /\ inHandler' = (HandlersCalled(eventHandler, cs[cur].eventHandler) /= <<>>)
    /\ UNCHANGED <<adbDevice, connected, eventHandler, now, pc, cur, previousStatus,
                   hdr, opens>>

\* an acknowledgement with the arguments as they came
OkayArgs_AsReceived(message) == <<message.arg0, message.arg1>>

\* the arguments of the OKAY that answers a WRITE
OkayArgs(message) == <<message.arg1, message.arg0>>

\* adb_handleWrite after its loop, and the rest of adb_poll's for loop
HandleWriteEnd(wr, hb) ==
    /\ pc = "recv"
    /\ bytesLeft = 0
    /\ \E d \in {Dispatch(World(adbDevice, connected, eventHandler,
                                [connections EXCEPT ![cur].status = previousStatus],
                                adb_writeEmptyMessage(log, A_OKAY, OkayArgs(hdr.m)[1],
                                                      OkayArgs(hdr.m)[2], wr).log),
                          hdr.m, cur + 1, hb)} :
           /\ adbDevice' = d.w.adbDevice
           /\ connected' = d.w.connected
           /\ eventHandler' = d.w.eventHandler
           /\ connections' = d.w.conns
           /\ cur' = d.cur
           /\ previousStatus' = d.prev
           /\ pc' = PcAfter(d.cur)
           /\ bytesLeft' = IF d.cur = NoConn THEN 0 ELSE hdr.m.data_length
           /\ hdr' = KeepHdr(PcAfter(d.cur), hdr)
           /\ Record(d.w.log, 0, Op("poll", NoConn, "message"))
           /\ opens' = CountOpens(opens, connections, <<>>, d.w.added)
    /\ inHandler' = FALSE
    /\ UNCHANGED now

----------------------------------------------------------------------------
(* The environment: what the application passes and what the transport     *)
(* does.                                                                   *)

\* what the application passes to adb_addConnection: a persistent
\* connection "a" with a handler, a one-shot connection "bc" without one, and
\* strings of ADB_CONNECTSTRING_LENGTH and more characters, which do not fit
Requests ==
    {[str |-> <<97>>, reconnect |-> TRUE, handler |-> ConnHandler],
     [str |-> <<98, 99>>, reconnect |-> FALSE, handler |-> NULL],
     [str |-> [k \in 1..ADB_CONNECTSTRING_LENGTH |-> 96 + k],
      reconnect |-> TRUE, handler |-> ConnHandler],
     [str |-> [k \in 1..(ADB_CONNECTSTRING_LENGTH + 1) |-> 96 + k],
      reconnect |-> FALSE, handler |-> NULL]}

WriteData == {<<1, 255>>}

\* a transport that reports a failed write as 1
WriteOutcomes == {"ok", "hdr", "pay"}

\* a transport that reports a failed write as -1 or as 256, which do not
\* fit the uint8_t of adb_writeMessage
WideOutcomes == {"hdrNeg", "payNeg", "hdrWrap", "payWrap"}

\* adb_poll ignores what its writes return: whether the header or the
\* payload failed makes no difference to it
PollWriteOutcomes == {"ok", "hdr"}

\* the transport's behaviour during a poll: an outcome for each message the
\* engine writes in it (the CONNECT, or an OPEN for each connection)
Every(outcome) == [k \in 1..ADB_MAX_CONNECTIONS |-> outcome]

WritesOf(outcomes) == [1..ADB_MAX_CONNECTIONS -> outcomes]

PollWriteSeqs == WritesOf(PollWriteOutcomes)

\* The calls a handler can make when it is called for an event other than
\* ADB_CONNECTION_RECEIVE: every function of the engine but adb_poll.
HandlerCalls ==
    {ApiCall("write", c, NULL, <<>>, FALSE, d, wr) :
        c \in Slots, d \in WriteData, wr \in WriteOutcomes \cup WideOutcomes}
    \cup {ApiCall("writeString", c, NULL, <<>>, FALSE, <<120>>, wr) :
            c \in Slots, wr \in WriteOutcomes \cup WideOutcomes}
    \cup {ApiCall("addConnection", NoConn, q.handler, q.str, q.reconnect, <<>>, "ok") :
            q \in Requests}
    \cup {ApiCall("setEventHandler", NoConn, h, <<>>, FALSE, <<>>, "ok") :
            h \in {NULL, GlobalHandler}}
    \cup {ApiCall("init", NoConn, NULL, <<>>, FALSE, <<>>, "ok")}

\* the handler who makes one of calls when called for event on about
\* connection at
Behaviours(calls) ==
    {[who |-> who, on |-> on, at |-> at, call |-> call] :
        who \in {GlobalHandler, ConnHandler},
        on \in {"ADB_CONNECT", "ADB_CONNECTION_OPEN", "ADB_CONNECTION_CLOSE",
                "ADB_CONNECTION_FAILED"},
        at \in Slots \cup {NoConn},
        call \in calls}

HandlerBehaviours == {Quiet} \cup Behaviours(HandlerCalls)

\* the stream id the peer uses
RemoteID == 7

\* local ids: one per slot
LocalIDs == 1..ADB_MAX_CONNECTIONS

\* payload lengths of WRITE frames: none, one full packet, two packets and
\* a remainder
PayloadLengths == {0, ADB_USB_PACKETSIZE, 2 * ADB_USB_PACKETSIZE + 2}

Hdr(command, arg0, arg1, length) ==
    [command |-> command, arg0 |-> arg0, arg1 |-> arg1, data_length |-> length,
     data_check |-> 0, magic |-> XorOnes(command)]

\* well-formed frames without payload, but for the banner of CONNECT
ControlFrames ==
    {Hdr(c, RemoteID, a1, 0) : c \in {A_OKAY, A_CLSE, A_WRTE}, a1 \in LocalIDs}
    \cup {Hdr(A_CNXN, 16777216, 4096, n) : n \in {7, MAX_BUF_SIZE + 44}}
    \cup {Hdr(A_OKAY, RemoteID, 0, 0), Hdr(A_OPEN, RemoteID, 1, 0),
          Hdr(A_SYNC, RemoteID, 1, 0)}

\* WRITE frames with a payload
DataFrames ==
    {Hdr(A_WRTE, RemoteID, a1, n) : a1 \in LocalIDs, n \in PayloadLengths \ {0}}

\* frames whose magic is not the complement of the command
CorruptFrames ==
    {[f EXCEPT !.magic = f.command] :
        f \in {Hdr(A_CLSE, RemoteID, 1, 0), Hdr(A_CNXN, 16777216, 4096, 7)}}

\* reads of a well-formed header that are not ADB_MESSAGE_SIZE bytes long
ShortReads ==
    {[n |-> 0, m |-> Hdr(A_CLSE, RemoteID, 1, 0)],
     [n |-> ADB_MESSAGE_SIZE - 1, m |-> Hdr(A_CNXN, 16777216, 4096, 7)],
     [n |-> ADB_USB_PACKETSIZE, m |-> Hdr(A_CLSE, RemoteID, 1, 0)]}

\* reads the engine drops
DroppedReads ==
    {[n |-> ADB_MESSAGE_SIZE, m |-> f] : f \in CorruptFrames} \cup ShortReads

Read(f) == [n |-> ADB_MESSAGE_SIZE, m |-> f]

HeaderReads ==
    {NoHdr} \cup {Read(f) : f \in ControlFrames \cup DataFrames} \cup DroppedReads

\* The transport's answers are drawn only where the call uses them: a poll
\* that returns for want of a device after usb_poll (line 400) reads no
\* header, and a message that is not written has no write to fail.
PollReads(event, reads) ==
    IF adb_usbEventHandler(World(adbDevice, connected, eventHandler, connections, <<>>),
                           event, Quiet).adbDevice = NULL
    THEN {NoHdr} ELSE reads

Attach == UsbEvent("USB_CONNECT", "phone", "adb")
Detach == UsbEvent("USB_DISCONNECT", "phone", "none")

Banner == Read(Hdr(A_CNXN, 16777216, 4096, 7))

\* A peer that is quiet while devices are plugged in and pulled out: in the
\* poll that delivers a hot-plug event it has sent nothing, or the banner
\* that answers the CONNECT of that poll.
QuietPlugReads(event, reads) ==
    PollReads(event, IF event = NoEvent THEN reads ELSE reads \cap {NoHdr, Banner})

\* the messages the engine writes in the poll that delivers event
MessagesWritten(event) ==
    LET lg == PollResult(event, Every("ok"), NoHdr, Quiet).log
    IN  Cardinality({k \in DOMAIN lg : lg[k].k = "tx"})

PollWrites(event) ==
    LET n == MessagesWritten(event)
    IN  {wr \in PollWriteSeqs : \A k \in DOMAIN wr : k > n => wr[k] = "ok"}

CallWritesOf(c, outcomes) == IF WriteCheck(c) = 0 THEN outcomes ELSE {"ok"}

CallWrites(c) == CallWritesOf(c, WriteOutcomes)

\* a transport that delivers every requested chunk in full
FullReads(len) == {len}

\* A transport that may fail: asked for the next chunk while left bytes of
\* the declared are outstanding and dataRead counts read, usb_bulkRead
\* returns the chunk in full, half of a full packet, nothing, or an error
\* code (-1).  An error strikes before the first byte of the payload has
\* arrived.  The transport recovers: once dataRead has reached MaxStall it
\* delivers every chunk in full.
FaultyReads(left, declared, read) ==
    IF read >= MaxStall THEN {ChunkLength(left)}
    ELSE IF left > declared THEN {0 - 1, ChunkLength(left)}
    ELSE {ChunkLength(left), 0}
         \cup (IF ChunkLength(left) = ADB_USB_PACKETSIZE
               THEN {ADB_USB_PACKETSIZE \div 2} ELSE {})
         \cup (IF left = declared THEN {0 - 1} ELSE {})

----------------------------------------------------------------------------
(* The program: every call with every input.                               *)

Next ==
    \/ \E h \in {NULL, GlobalHandler} : adb_setEventHandler(h)
    \/ \E q \in Requests : adb_addConnection(q.str, q.reconnect, q.handler)
    \/ \E c \in Slots, d \in WriteData :
          \E wr \in CallWritesOf(c, WriteOutcomes \cup WideOutcomes) : adb_write(c, d, wr)
    \/ \E c \in Slots :
          \E wr \in CallWritesOf(c, WriteOutcomes \cup WideOutcomes) :
             adb_writeString(c, <<120>>, wr)
    \/ adb_init
    \/ \E d \in 1..MaxTick : Tick(d)
    \/ \E e \in EventsOf(Devices \cup BrokenDevices) :
          \E wr \in WritesOf(WriteOutcomes \cup WideOutcomes),
             rd \in PollReads(e, HeaderReads), hb \in HandlerBehaviours :
             adb_poll(e, wr, rd, hb)
    \/ \E n \in (0 - 1)..ChunkLength(bytesLeft) : HandleWriteChunk(n)
    \/ \E wr \in WriteOutcomes \cup WideOutcomes, hb \in HandlerBehaviours :
          HandleWriteEnd(wr, hb)

Spec == Init /\ [][Next]_vars

----------------------------------------------------------------------------
(* Sessions: the application initialises the engine once and registers no  *)
(* process-wide handler; the peer sends frames without payload.            *)

SessionReads == {NoHdr} \cup {Read(f) : f \in ControlFrames} \cup DroppedReads

SessionNext ==
    \/ \E q \in Requests : adb_addConnection(q.str, q.reconnect, q.handler)
    \/ \E c \in Slots, d \in WriteData : \E wr \in CallWrites(c) : adb_write(c, d, wr)
    \/ \E c \in Slots : \E wr \in CallWrites(c) : adb_writeString(c, <<120>>, wr)
    \/ \E d \in 1..MaxTick : Tick(d)
    \/ \E e \in UsbEvents :
          \E wr \in PollWrites(e), rd \in QuietPlugReads(e, SessionReads) :
             adb_poll(e, wr, rd, Quiet)
    \/ \E wr \in PollWriteOutcomes : HandleWriteEnd(wr, Quiet)

SessionSpec == Init /\ [][SessionNext]_vars

----------------------------------------------------------------------------
(* Reconnection: persistent connections, a transport whose writes succeed, *)
(* a peer that answers the handshake and acknowledges OPEN, and a main     *)
(* loop that keeps calling adb_poll while the clock advances.  The loop    *)
(* polls far more often than the clock wraps, so it polls while a retry is *)
(* due (strong fairness of GatePoll).                                      *)

LiveReads == {NoHdr, Banner} \cup {Read(Hdr(A_OKAY, RemoteID, a1, 0)) : a1 \in LocalIDs}

\* a poll while the retry of slot i is due
GatePoll(i) ==
    /\ LinkUp
    /\ connections[i].status = "CLOSED"
    /\ RetryDue(TimeSince(now, connections[i].lastConnectionAttempt))
    /\ \E rd \in LiveReads : adb_poll(NoEvent, Every("ok"), rd, Quiet)

LiveNext ==
    \/ \E q \in {r \in Requests : r.reconnect} :
          adb_addConnection(q.str, q.reconnect, q.handler)
    \/ \E d \in 1..MaxTick : Tick(d)
    \/ \E e \in {NoEvent, Attach, Detach} :
          \E rd \in QuietPlugReads(e, LiveReads) : adb_poll(e, Every("ok"), rd, Quiet)

LiveSpec ==
    /\ Init
    /\ [][LiveNext]_vars
    /\ WF_vars(\E d \in 1..MaxTick : Tick(d))
    /\ \A i \in Slots : SF_vars(GatePoll(i))

----------------------------------------------------------------------------
(* Reception: connections with a handler, a peer that sends WRITE frames   *)
(* with payloads and a transport that delivers every chunk                 *)
(* adb_handleWrite asks for in full and whose writes succeed; the handler  *)
(* of a connection may write while it is called.                           *)

RecvReads ==
    {NoHdr, Banner}
    \cup {Read(Hdr(A_OKAY, RemoteID, a1, 0)) : a1 \in LocalIDs}
    \cup {Read(Hdr(A_WRTE, RemoteID, a1, n)) : a1 \in LocalIDs, n \in PayloadLengths}

RecvNext ==
    \/ \E q \in {r \in Requests : r.handler /= NULL} :
          Idle /\ adb_addConnection(q.str, q.reconnect, q.handler)
    \/ \E c \in Slots, d \in WriteData : adb_write(c, d, "ok")
    \/ \E d \in 1..MaxTick : Tick(d)
    \/ \E e \in {NoEvent, Attach, Detach} :
          \E rd \in QuietPlugReads(e, RecvReads) : adb_poll(e, Every("ok"), rd, Quiet)
    \/ \E n \in FullReads(ChunkLength(bytesLeft)) : HandleWriteChunk(n)
    \/ HandleWriteEnd("ok", Quiet)

RecvSpec == Init /\ [][RecvNext]_vars

----------------------------------------------------------------------------
(* Dispatch: the application registers and removes the process-wide        *)
(* handler, adds connections with and without a handler of their own, and  *)
(* the peer opens, closes and writes to them; the transport delivers every *)
(* chunk in full and its writes succeed.                                   *)

DispatchRequests == {q \in Requests : ~StringTooLong(q.str)}

DispatchReads ==
    {NoHdr, Banner}
    \cup {Read(Hdr(c, RemoteID, a1, 0)) : c \in {A_OKAY, A_CLSE}, a1 \in LocalIDs}
    \cup {Read(Hdr(A_WRTE, RemoteID, a1, ADB_USB_PACKETSIZE)) : a1 \in LocalIDs}

DispatchNext ==
    \/ \E h \in {NULL, GlobalHandler} : Idle /\ adb_setEventHandler(h)
    \/ \E q \in DispatchRequests :
          Idle /\ adb_addConnection(q.str, q.reconnect, q.handler)
    \/ \E d \in 1..MaxTick : Tick(d)
    \/ \E e \in {NoEvent, Attach, Detach} :
          \E rd \in QuietPlugReads(e, DispatchReads) : adb_poll(e, Every("ok"), rd, Quiet)
    \/ \E n \in FullReads(ChunkLength(bytesLeft)) : HandleWriteChunk(n)
    \/ HandleWriteEnd("ok", Quiet)

DispatchSpec == Init /\ [][DispatchNext]_vars

----------------------------------------------------------------------------
(* Failing writes: a transport that may refuse any message of a poll, a    *)
(* peer that answers the handshake and sends nothing else, and a device    *)
(* that stays attached; the main loop keeps calling adb_poll while the     *)
(* clock advances.                                                         *)

RetryReads == {NoHdr, Banner}

RetryPoll == \E wr \in PollWriteSeqs, rd \in RetryReads : adb_poll(NoEvent, wr, rd, Quiet)

\* a poll while the retry of slot i is due
RetryGatePoll(i) ==
    /\ LinkUp
    /\ connections[i].status = "CLOSED"
    /\ RetryDue(TimeSince(now, connections[i].lastConnectionAttempt))
    /\ RetryPoll

RetryNext ==
    \/ \E q \in DispatchRequests : adb_addConnection(q.str, q.reconnect, q.handler)
    \/ \E d \in 1..MaxTick : Tick(d)
    \/ \E wr \in PollWrites(Attach), rd \in QuietPlugReads(Attach, RetryReads) :
          adb_poll(Attach, wr, rd, Quiet)
    \/ adbDevice /= NULL /\ RetryPoll

RetrySpec ==
    /\ Init
    /\ [][RetryNext]_vars
    /\ WF_vars(\E d \in 1..MaxTick : Tick(d))
    /\ WF_vars(adbDevice /= NULL /\ RetryPoll)
    /\ \A i \in Slots : SF_vars(RetryGatePoll(i))

----------------------------------------------------------------------------
(* Faulty payload reads: the peer writes one packet of payload to          *)
(* connections that it has opened, and the transport may deliver less than *)
(* adb_handleWrite asks for.  The processor keeps executing the loop of     *)
(* adb_handleWrite and what follows it (weak fairness).                    *)

FaultReads ==
    {NoHdr, Banner}
    \cup {Read(Hdr(A_OKAY, RemoteID, a1, 0)) : a1 \in LocalIDs}
    \cup {Read(Hdr(A_WRTE, RemoteID, a1, ADB_USB_PACKETSIZE)) : a1 \in LocalIDs}

FaultyChunk ==
    /\ pc = "recv"
    /\ \E n \in FaultyReads(bytesLeft, hdr.m.data_length, connections[cur].dataRead) :
          HandleWriteChunk(n)

FaultNext ==
    \/ \E q \in {r \in DispatchRequests : r.handler /= NULL} :
          Idle /\ adb_addConnection(q.str, q.reconnect, q.handler)
    \/ \E d \in 1..MaxTick : Tick(d)
    \/ \E e \in {NoEvent, Attach} :
          \E rd \in QuietPlugReads(e, FaultReads) : adb_poll(e, Every("ok"), rd, Quiet)
    \/ FaultyChunk
    \/ HandleWriteEnd("ok", Quiet)

FaultSpec ==
    /\ Init
    /\ [][FaultNext]_vars
    /\ WF_vars(FaultyChunk)
    /\ WF_vars(HandleWriteEnd("ok", Quiet))

----------------------------------------------------------------------------
(* A transport that stops delivering: the peer writes one packet of payload *)
(* to the one connection of the application, and usb_bulkRead either        *)
(* returns the chunk or returns 0; after it has returned 0 it goes on       *)
(* returning 0 as long as dataRead is ahead of what has arrived.  The       *)
(* processor keeps executing (weak fairness).                               *)

\* 0 once adb_handleWrite has been given less than it asked for
StallReads ==
    IF connections[cur].dataRead + bytesLeft > connections[cur].dataSize
    THEN {0} ELSE {0, ChunkLength(bytesLeft)}

StallChunk == pc = "recv" /\ \E n \in StallReads : HandleWriteChunk(n)

StallNext ==
    \/ Idle /\ adb_addConnection(<<97>>, TRUE, ConnHandler)
    \/ \E d \in 1..MaxTick : Tick(d)
    \/ \E e \in {NoEvent, Attach} :
          \E rd \in QuietPlugReads(e, FaultReads) : adb_poll(e, Every("ok"), rd, Quiet)
    \/ StallChunk
    \/ HandleWriteEnd("ok", Quiet)

StallSpec ==
    /\ Init
    /\ [][StallNext]_vars
    /\ WF_vars(StallChunk)
    /\ WF_vars(HandleWriteEnd("ok", Quiet))

----------------------------------------------------------------------------
(* Calls from handlers: the handler of a connection writes and adds        *)
(* connections while it is called for an event; the device is plugged in   *)
(* and pulled out, and the peer opens, acknowledges and closes; a write of *)
(* the application may fail with a code that is 0 as a uint8_t.  What the  *)
(* handler of ADB_CONNECTION_RECEIVE calls is an action of its own between *)
(* the chunks of a payload (RecvSpec).                                     *)

ReentryRequests ==
    {[str |-> <<97>>, reconnect |-> TRUE, handler |-> ConnHandler],
     [str |-> <<98, 99>>, reconnect |-> FALSE, handler |-> ConnHandler]}

ReentryReads ==
    {NoHdr, Banner}
    \cup {Read(Hdr(c, RemoteID, a1, 0)) : c \in {A_OKAY, A_CLSE}, a1 \in LocalIDs}

ReentryCalls ==
    {ApiCall("write", c, NULL, <<>>, FALSE, d, "ok") : c \in Slots, d \in WriteData}
    \cup {ApiCall("addConnection", NoConn, q.handler, q.str, q.reconnect, <<>>, "ok") :
             q \in ReentryRequests}

\* what the handlers may do in a poll with the given inputs: those called
\* for an event the poll fires make one call
ReentryBehaviours(e, wr, rd) ==
    LET lg == PollResult(e, wr, rd, Quiet).log
    IN  {Quiet}
        \cup {hb \in Behaviours(ReentryCalls) :
                 /\ hb.who = ConnHandler
                 /\ \E k \in DOMAIN lg :
                       lg[k].k = "ev" /\ lg[k].t = hb.on /\ lg[k].c = hb.at}

ReentryNext ==
    \/ \E q \in ReentryRequests : adb_addConnection(q.str, q.reconnect, q.handler)
    \/ \E c \in Slots, d \in WriteData :
          \E wr \in CallWritesOf(c, {"ok", "hdrWrap"}) : adb_write(c, d, wr)
    \/ \E d \in 1..MaxTick : Tick(d)
    \/ \E e \in {NoEvent, Attach, Detach} :
          \E rd \in QuietPlugReads(e, ReentryReads) :
             \E hb \in ReentryBehaviours(e, Every("ok"), rd) :
                adb_poll(e, Every("ok"), rd, hb)

ReentrySpec == Init /\ [][ReentryNext]_vars

----------------------------------------------------------------------------
(* Link state: the application may call adb_init again at any time between *)
(* two calls, adds connections and writes to them; the device is plugged   *)
(* in and pulled out; the peer answers the handshake and acknowledges; the *)
(* writes of the transport succeed.                                        *)

LinkReads == {NoHdr, Banner} \cup {Read(Hdr(A_OKAY, RemoteID, a1, 0)) : a1 \in LocalIDs}

LinkNext ==
    \/ adb_init
    \/ \E q \in DispatchRequests : adb_addConnection(q.str, q.reconnect, q.handler)
    \/ \E c \in Slots, d \in WriteData : adb_write(c, d, "ok")
    \/ \E d \in 1..MaxTick : Tick(d)
    \/ \E e \in UsbEvents :
          \E rd \in QuietPlugReads(e, LinkReads) : adb_poll(e, Every("ok"), rd, Quiet)

LinkSpec == Init /\ [][LinkNext]_vars

----------------------------------------------------------------------------
(* Properties.                                                             *)

InUse(c) == c.status /= "UNUSED"

\* the step is a call of adb_addConnection
AddStep == op'.name = "addConnection"

C1_LocalIds ==
    \A i \in Slots :
        InUse(connections[i]) =>
            /\ connections[i].localID /= 0
            /\ connections[i].localID = i + 1
            /\ \A j \in Slots \ {i} :
                   InUse(connections[j]) => connections[j].localID /= connections[i].localID

C1_HandedOut ==
    AddStep /\ ret' /= NoConn =>
        /\ ~InUse(connections[ret'])
        /\ \A j \in Slots :
               InUse(connections[j]) => connections[j].localID /= connections'[ret'].localID

\* C1: any two slots in use have different local ids, the local id of a slot
\* in use is not zero and is its index + 1, and adb_addConnection hands out
\* a local id only when no slot in use holds it (its slot is UNUSED).
C1_UniqueLocalIds == []C1_LocalIds /\ [][C1_HandedOut]_vars

\* both slots in use, slot 0 claimed for the second time while slot 1 is
\* still in use (the remote id of its earlier life is still in the record)
C1_Witness ==
    /\ op.name = "addConnection"
    /\ ret = 0
    /\ connections[0].remoteID = RemoteID
    /\ connections[0].localID = 1
    /\ InUse(connections[1])
    /\ connections[1].localID = 2

\* the longest descriptor adb_connection.connectionString holds
MaxDescriptorLength == ADB_CONNECTSTRING_LENGTH - 1

LowestUnused == CHOOSE i \in Slots :
    /\ ~InUse(connections[i])
    /\ \A j \in 0..(i - 1) : InUse(connections[j])

C2_Post(q) ==
    LET fails == \/ Len(q.str) > MaxDescriptorLength
                 \/ \A i \in Slots : InUse(connections[i])
    IN  /\ (ret' = NoConn) <=> fails
        /\ fails => connections' = connections
        /\ ~fails =>
              /\ ret' = LowestUnused
              /\ connections'[ret'].status = "CLOSED"
              /\ connections'[ret'].connectionString = q.str
              /\ connections'[ret'].reconnect = q.reconnect
              /\ connections'[ret'].eventHandler = q.handler
              /\ \A j \in Slots \ {ret'} : connections'[j] = connections[j]

\* C2: adb_addConnection fails exactly when the descriptor is longer than
\* the record holds or no slot is UNUSED, and then changes no slot; otherwise
\* it claims the lowest UNUSED slot, which becomes CLOSED with the given
\* descriptor, flag and handler, and no other slot changes.
C2_AddConnection ==
    [][\A q \in Requests :
          adb_addConnection(q.str, q.reconnect, q.handler) => C2_Post(q)]_vars

\* the one-shot request claimed slot 1 because slot 0 was in use
C2_Witness ==
    /\ op.name = "addConnection"
    /\ ret = 1
    /\ InUse(connections[0])
    /\ connections[1].status = "CLOSED"
    /\ connections[1].connectionString = <<98, 99>>
    /\ ~connections[1].reconnect

\* the step is the start of a call of adb_poll
PollStart == pc = "idle" /\ op'.name = "poll"

\* the step is a poll that reaches the retry gate: the link is up and stays
GateRuns == PollStart /\ connected /\ adbDevice /= NULL /\ adbDevice' /= NULL

\* the time since the last attempt of c, on the wrapping clock
Elapsed(c) == (now - c.lastConnectionAttempt) % MILLIS_MODULUS

\* an OPEN for connection c was handed to the transport
OpenSent(lg, c) ==
    \E k \in DOMAIN lg : lg[k].k = "tx" /\ lg[k].cmd = A_OPEN /\ lg[k].a0 = c.localID

\* the retry gate opens exactly the CLOSED connections whose last attempt is
\* at least `least` ticks ago
C3_Gate(least) ==
    GateRuns =>
        \A i \in Slots :
            connections[i].status = "CLOSED" =>
                LET due == Elapsed(connections[i]) >= least
                IN  /\ OpenSent(log', connections[i]) <=> due
                    /\ connections'[i].lastConnectionAttempt =
                          (IF due THEN now ELSE connections[i].lastConnectionAttempt)
                    /\ op'.rx /= "message" =>
                          connections'[i].status = (IF due THEN "OPENING" ELSE "CLOSED")

\* C3 as stated: while connected, a poll sends OPEN for a CLOSED connection,
\* moves it to OPENING and records the time if and only if the time since its
\* last attempt is at least the retry interval.
C3_Original == [][C3_Gate(ADB_CONNECTION_RETRY_TIME)]_vars

\* C3 as amended: ... if and only if the time since its last attempt is
\* greater than the retry interval; exactly at the interval it stays CLOSED.
C3_RetryGate == [][C3_Gate(ADB_CONNECTION_RETRY_TIME + 1)]_vars

\* a poll of the connected engine left slot 0 CLOSED exactly at the interval
\* and sent OPEN for slot 1, whose last attempt was longer ago
C3_Witness ==
    /\ op.name = "poll"
    /\ connected
    /\ connections[0].status = "CLOSED"
    /\ Elapsed(connections[0]) = ADB_CONNECTION_RETRY_TIME
    /\ ~OpenSent(log, connections[0])
    /\ connections[1].status = "OPENING"
    /\ connections[1].lastConnectionAttempt = now
    /\ OpenSent(log, connections[1])

\* the step is a call of adb_write or adb_writeString
WriteStep == op'.name \in {"write", "writeString"}

NotConnectedResult == 0 - 1
NotOpenResult == 0 - 2

\* a write on a connection that is not OPEN returns r, hands nothing to the
\* transport and changes no connection
C4_Refused(r) ==
    WriteStep /\ connections[op'.c].status /= "OPEN" =>
        /\ ret' = r
        /\ log' = (IF pc = "idle" THEN <<>> ELSE log)
        /\ connections' = connections

\* C4 as stated: on a connection that is not OPEN, adb_write and
\* adb_writeString return the not-open result in every state of the link,
\* send no frame and leave the connection unchanged.
C4_Original == [][C4_Refused(NotOpenResult)]_vars

\* C4 as amended: on a connection that is not OPEN they return the not-open
\* result when the link is up and the not-connected result when it is not
\* (no device, or no handshake yet); in both cases they send no frame and
\* leave the connection unchanged.
C4_WriteNotOpen ==
    [][C4_Refused(IF LinkUp THEN NotOpenResult ELSE NotConnectedResult)]_vars

\* adb_writeString on a connection that waits for the OKAY of an earlier
\* write, with the link up, returned not-open
C4_Witness ==
    /\ op.name = "writeString"
    /\ LinkUp
    /\ connections[op.c].status = "WRITING"
    /\ ret = NotOpenResult
    /\ log = <<>>

EventsFor(lg, i, types) ==
    {k \in DOMAIN lg : lg[k].k = "ev" /\ lg[k].c = i /\ lg[k].t \in types}

EventTypes ==
    {"ADB_CONNECT", "ADB_CONNECTION_OPEN", "ADB_CONNECTION_CLOSE",
     "ADB_CONNECTION_FAILED", "ADB_CONNECTION_RECEIVE"}

\* the poll fired exactly one event for slot i, of type t
OneEvent(lg, i, t) ==
    /\ Cardinality(EventsFor(lg, i, {t})) = 1
    /\ Cardinality(EventsFor(lg, i, EventTypes)) = 1

\* the step is a poll in which the device in use is detached
DetachStep == PollStart /\ adbDevice /= NULL /\ adbDevice' = NULL

\* what a detach does: closed(_) tells the event a connection in a given
\* status gets
C5_Detach(closed(_)) ==
    DetachStep =>
        /\ \A i \in Slots :
              IF connections[i].status \in {"OPENING", "OPEN", "WRITING", "RECEIVING"}
              THEN OneEvent(log', i, closed(connections[i].status))
              ELSE EventsFor(log', i, EventTypes) = {}
        /\ ~connected'
        /\ adbDevice' = NULL

C5_AlwaysClose(status) == "ADB_CONNECTION_CLOSE"

C5_FailedOrClose(status) ==
    IF status = "OPENING" THEN "ADB_CONNECTION_FAILED" ELSE "ADB_CONNECTION_CLOSE"

\* C5 as stated: when the device is detached, exactly one
\* ADB_CONNECTION_CLOSE and no other event is fired for each connection that
\* is OPENING, OPEN, WRITING or RECEIVING, no event is fired for UNUSED and
\* CLOSED connections, and afterwards connected is false and no device is
\* attached.
C5_Original == [][C5_Detach(C5_AlwaysClose)]_vars

\* C5 as amended: ... exactly one event is fired for each connection that is
\* OPENING, OPEN, WRITING or RECEIVING, ADB_CONNECTION_FAILED for a
\* connection that is OPENING and ADB_CONNECTION_CLOSE for the others; no
\* event is fired for UNUSED and CLOSED connections, and afterwards connected
\* is false and no device is attached.
C5_DetachCloses == [][C5_Detach(C5_FailedOrClose)]_vars

\* the device was detached while the persistent connection in slot 0 was
\* OPENING and the one-shot connection in slot 1 was OPEN
C5_Witness ==
    /\ op.name = "poll"
    /\ adbDevice = NULL
    /\ ~connected
    /\ log = <<Ev(0, "ADB_CONNECTION_FAILED", 0, <<ConnHandler>>),
               Ev(1, "ADB_CONNECTION_CLOSE", 0, <<>>)>>
    /\ connections[0].status = "CLOSED"
    /\ connections[1].status = "UNUSED"

\* a persistent connection in use is CLOSED after the detach
C6_Survives ==
    DetachStep =>
        \A i \in Slots :
            InUse(connections[i]) /\ connections[i].reconnect =>
                connections'[i].status = "CLOSED"

\* the device is attached (again), the peer has answered the handshake and
\* the persistent connection in slot i is CLOSED
C6_Waiting(i) ==
    LinkUp /\ connections[i].reconnect /\ connections[i].status = "CLOSED"

\* a poll handed an OPEN for slot i to the transport
C6_Reopened(i) == op.name = "poll" /\ OpenSent(log, connections[i])

\* C6: a persistent connection is CLOSED, not UNUSED, after the device is
\* detached, and once a device is attached again and the peer has answered
\* the handshake, with adb_poll being called while the clock advances, an
\* OPEN for the connection is eventually sent again (unless that device is
\* detached before).
C6_PersistentReopens ==
    /\ [][C6_Survives]_vars
    /\ \A i \in Slots : C6_Waiting(i) ~> (C6_Reopened(i) \/ adbDevice = NULL)

\* slot 0 was OPEN (it has the peer's id), the only thing that closes a
\* connection here is a detach, and a poll has just sent OPEN for it again
C6_Witness ==
    /\ op.name = "poll"
    /\ connections[0].reconnect
    /\ connections[0].remoteID = RemoteID
    /\ connections[0].status = "OPENING"
    /\ OpenSent(log, connections[0])

Close(i) == Read(Hdr(A_CLSE, RemoteID, i + 1, 0))

\* the step is a poll that reads a CLOSE addressed to slot i
CloseStep(i) ==
    /\ PollStart
    /\ op'.rx = "message"
    /\ \E wr \in PollWrites(NoEvent) : adb_poll(NoEvent, wr, Close(i), Quiet)

C7_Failed ==
    \A i \in Slots :
        connections[i].status = "OPENING" /\ CloseStep(i) =>
            /\ OneEvent(log', i, "ADB_CONNECTION_FAILED")
            /\ connections'[i].status =
                  (IF connections[i].reconnect THEN "CLOSED" ELSE "UNUSED")

C7_Retried ==
    \A i \in Slots :
        /\ GateRuns
        /\ connections[i].status = "CLOSED"
        /\ connections[i].reconnect
        /\ Elapsed(connections[i]) > ADB_CONNECTION_RETRY_TIME
        => OpenSent(log', connections[i])

\* C7: a CLOSE for a connection in OPENING fires exactly one
\* ADB_CONNECTION_FAILED and no ADB_CONNECTION_CLOSE; a persistent connection
\* becomes CLOSED, and a poll of the connected engine after the retry
\* interval since its last attempt sends an OPEN for it; a connection that is
\* not persistent becomes UNUSED.
C7_CloseWhileOpening == [][C7_Failed /\ C7_Retried]_vars

\* the peer refused the OPEN of the persistent connection in slot 0: its
\* handler got ADB_CONNECTION_FAILED and the connection is CLOSED
C7_Witness ==
    /\ op = PollOp("message")
    /\ LinkUp
    /\ log = <<Ev(0, "ADB_CONNECTION_FAILED", 0, <<ConnHandler>>)>>
    /\ connections[0].status = "CLOSED"
    /\ connections[0].reconnect

\* slot i was given back by the CLOSE the last poll read
JustClosed(i) ==
    /\ op = PollOp("message")
    /\ LinkUp
    /\ EventsFor(log, i, {"ADB_CONNECTION_CLOSE"}) /= {}
    /\ connections[i].status = "UNUSED"

C8_Closed ==
    \A i \in Slots :
        connections[i].status \in {"OPEN", "WRITING"} /\ CloseStep(i) =>
            /\ OneEvent(log', i, "ADB_CONNECTION_CLOSE")
            /\ connections'[i].status =
                  (IF connections[i].reconnect THEN "CLOSED" ELSE "UNUSED")

C8_Reused ==
    \A i \in Slots, q \in Requests :
        /\ JustClosed(i)
        /\ AddStep
        /\ \A j \in 0..(i - 1) : InUse(connections[j])
        /\ Len(q.str) <= MaxDescriptorLength
        /\ adb_addConnection(q.str, q.reconnect, q.handler)
        => /\ ret' = i
           /\ connections'[i].status = "CLOSED"
           /\ connections'[i].localID = connections[i].localID

\* C8: a CLOSE for a connection in OPEN or WRITING fires exactly one
\* ADB_CONNECTION_CLOSE; a connection that is not persistent is UNUSED when
\* the poll returns and the next adb_addConnection claims its slot again,
\* with the same local id (when no lower slot is free); a persistent
\* connection becomes CLOSED.
C8_CloseWhileOpen == [][C8_Closed /\ C8_Reused]_vars

\* the one-shot connection in slot 1, which was OPEN, has just been closed by
\* the peer and its slot is UNUSED
C8_Witness ==
    /\ JustClosed(1)
    /\ ~connections[1].reconnect
    /\ connections[1].remoteID = RemoteID
    /\ log = <<Ev(1, "ADB_CONNECTION_CLOSE", 0, <<>>)>>

\* the step is the end of adb_handleWrite
WriteEndStep == pc = "recv" /\ bytesLeft = 0 /\ op'.name = "poll"

\* the chunk sizes of a payload of length l in packets of size p
ExpectedChunks(l, p) ==
    [k \in 1..((l + p - 1) \div p) |-> IF k * p <= l THEN p ELSE l - (k - 1) * p]

IsReceive(e) == e.k = "ev" /\ e.t = "ADB_CONNECTION_RECEIVE"

IsOkay(e) == e.k = "tx" /\ e.cmd = A_OKAY

\* the lengths of the ADB_CONNECTION_RECEIVE events of slot i, in order
ReceivedChunks(lg, i) ==
    LET evs == SelectSeq(lg, LAMBDA e : IsReceive(e) /\ e.c = i)
    IN  [k \in DOMAIN evs |-> evs[k].n]

\* C9: when a WRITE of declared length L for an OPEN connection has been
\* received from a transport that delivers every chunk in full, the poll has
\* fired ceil(L/P) ADB_CONNECTION_RECEIVE events for the connection, each of
\* P bytes but for a last one of the remainder, and none for another
\* connection, then sent exactly one OKAY, whose arguments are the frame's
\* swapped, and the connection is OPEN again.
C9_Reassembly ==
    [][WriteEndStep /\ previousStatus = "OPEN" =>
         /\ ReceivedChunks(log', cur) =
               ExpectedChunks(hdr.m.data_length, ADB_USB_PACKETSIZE)
         /\ Len(SelectSeq(log', IsReceive)) = Len(ReceivedChunks(log', cur))
         /\ Len(SelectSeq(log', IsOkay)) = 1
         /\ log'[Len(log')] = Tx(A_OKAY, hdr.m.arg1, hdr.m.arg0, 0, 0, "all")
         /\ connections'[cur].status = "OPEN"]_vars

\* 130 bytes for the connection in slot 0 arrived as 64, 64 and 2, the OKAY
\* went out and the connection is OPEN
C9_Witness ==
    /\ op = PollOp("message")
    /\ pc = "idle"
    /\ log = <<Ev(0, "ADB_CONNECTION_RECEIVE", 64, <<ConnHandler>>),
               Ev(0, "ADB_CONNECTION_RECEIVE", 64, <<ConnHandler>>),
               Ev(0, "ADB_CONNECTION_RECEIVE", 2, <<ConnHandler>>),
               Tx(A_OKAY, 1, RemoteID, 0, 0, "all")>>
    /\ connections[0].status = "OPEN"
    /\ connections[0].dataRead = 130

\* every control frame with a magic that is not the complement of its
\* command, and every control frame read with a byte count that is not the
\* size of a header
BadHeaders ==
    {[n |-> ADB_MESSAGE_SIZE, m |-> [f EXCEPT !.magic = f.command]] : f \in ControlFrames}
    \cup {[n |-> ADB_MESSAGE_SIZE, m |-> [f EXCEPT !.magic = <<0, 0>>]] : f \in ControlFrames}
    \cup {[n |-> k, m |-> f] :
            k \in {0, ADB_MESSAGE_SIZE - 1, ADB_MESSAGE_SIZE + 1, ADB_USB_PACKETSIZE},
            f \in ControlFrames}

\* the only messages in lg are the handshake and the OPENs of the retry
\* gate: no event was fired and no frame was answered
OnlyOwnTraffic(lg) ==
    \A k \in DOMAIN lg : lg[k].k = "tx" /\ lg[k].cmd \in {A_CNXN, A_OPEN}

\* C10: a poll that reads a header whose magic is not the complement of its
\* command, or whose byte count is not 24, does what a poll that reads
\* nothing does: it fires no event, sends no reply, and leaves the flag
\* connected and every connection as the poll without a header leaves them.
C10_BadHeaderDropped ==
    pc = "idle" /\ adbDevice /= NULL =>
        \A wr \in PollWrites(NoEvent) :
            \E idle \in {PollResult(NoEvent, wr, NoHdr, Quiet)} :
                \A rd \in BadHeaders :
                    \E r \in {PollResult(NoEvent, wr, rd, Quiet)} :
                        /\ OnlyOwnTraffic(r.log)
                        /\ r.log = idle.log
                        /\ r.connected = connected
                        /\ r.conns = idle.conns
                        /\ r.cur = NoConn

\* a poll has just dropped a header while the link was up, slot 0 was OPEN
\* and slot 1 was waiting for the answer to its OPEN
C10_Witness ==
    /\ op = PollOp("dropped")
    /\ LinkUp
    /\ connections[0].status = "OPEN"
    /\ connections[1].status = "OPENING"
    /\ log = <<>>

\* the handlers an event for connection c (NoConn: none) must reach, in
\* order: the process-wide handler if one is registered, then the
\* connection's own if it has one
ExpectedCalls(c) ==
    (IF eventHandler /= NULL THEN <<eventHandler>> ELSE <<>>)
    \o (IF c /= NoConn /\ connections[c].eventHandler /= NULL
        THEN <<connections[c].eventHandler>> ELSE <<>>)

\* C11: every event is delivered inside the call of adb_poll that produced
\* it; an event that carries a connection reaches the process-wide handler,
\* if one is registered, exactly once and first, and then the connection's
\* own handler, if it has one, exactly once; ADB_CONNECT, and no other
\* event, carries no connection and reaches the process-wide handler only.
C11_DeliveryOrder ==
    \A k \in DOMAIN log :
        log[k].k = "ev" =>
            /\ op.name = "poll"
            /\ (log[k].t = "ADB_CONNECT") <=> (log[k].c = NoConn)
            /\ log[k].c /= NoConn => log[k].c \in Slots
            /\ log[k].calls = ExpectedCalls(log[k].c)

\* with both handlers registered, the OKAY that opened slot 0 was reported
\* to the process-wide handler and then to the connection's
C11_Witness ==
    /\ op = PollOp("message")
    /\ eventHandler = GlobalHandler
    /\ connections[0].eventHandler = ConnHandler
    /\ log = <<Ev(0, "ADB_CONNECTION_OPEN", 0, <<GlobalHandler, ConnHandler>>)>>

\* the connection in slot i is in use and not persistent
OneShot(i) == InUse(connections[i]) /\ ~connections[i].reconnect

\* C12: for a connection that is not persistent, at most one OPEN is written
\* between its adb_addConnection and its slot becoming UNUSED (opens counts
\* them); it is CLOSED only as long as no OPEN has been written for it, so
\* once it has been OPENING, OPEN or WRITING it is never CLOSED again.  (A
\* WRITE addressed to it while it is CLOSED makes it RECEIVING for the time
\* of that poll and CLOSED again; no OPEN is written by that.)
C12_ConnectsOnce ==
    \A i \in Slots :
        OneShot(i) =>
            /\ opens[i] <= 1
            /\ connections[i].status = "CLOSED" => opens[i] = 0
            /\ connections[i].status \in {"OPENING", "OPEN", "WRITING"} => opens[i] = 1
            /\ pc = "recv" /\ cur = i =>
                  (previousStatus = "CLOSED" <=> opens[i] = 0)

\* the OPEN of the one-shot connection in slot 1 is unanswered for longer
\* than the retry interval and a poll of the connected engine has just run
\* the retry gate without writing anything
C12_Witness ==
    /\ op = PollOp("none")
    /\ LinkUp
    /\ OneShot(1)
    /\ connections[1].status = "OPENING"
    /\ opens[1] = 1
    /\ Elapsed(connections[1]) > ADB_CONNECTION_RETRY_TIME
    /\ log = <<>>

\* the slots in use in table cs whose local id is the frame's arg1
Addressees(cs, f) == {i \in Slots : InUse(cs[i]) /\ cs[i].localID = f.arg1}

\* what the poll that reads frame f does (r) beyond what the poll that reads
\* nothing does (idle), when no connection is addressed: nothing, but that a
\* CNXN is reported as ADB_CONNECT, which carries no connection
Unaddressed(idle, r, f) ==
    /\ r.conns = idle.conns
    /\ r.cur = NoConn
    /\ r.log = IF f.command = A_CNXN
               THEN Append(idle.log, Ev(NoConn, "ADB_CONNECT", ConnectLength(f),
                                        ExpectedCalls(NoConn)))
               ELSE idle.log

C13_Frame ==
    pc = "idle" /\ adbDevice /= NULL =>
        \E idle \in {PollResult(NoEvent, Every("ok"), NoHdr, Quiet)} :
            \A f \in ControlFrames \cup DataFrames :
                \E r \in {PollResult(NoEvent, Every("ok"), Read(f), Quiet)} :
                    /\ Cardinality(Addressees(idle.conns, f)) <= 1
                    /\ {i \in Slots : r.conns[i] /= idle.conns[i]}
                          \subseteq Addressees(idle.conns, f)
                    /\ r.cur /= NoConn => r.cur \in Addressees(idle.conns, f)
                    /\ Addressees(idle.conns, f) = {} => Unaddressed(idle, r, f)

\* the payload reads and the end of adb_handleWrite touch the addressed
\* connection only
C13_Payload ==
    pc = "recv" =>
        /\ cur \in Addressees(connections, hdr.m)
        /\ \A j \in Slots \ {cur} : connections'[j] = connections[j]

\* C13: a valid frame changes at most one connection, the one in use whose
\* local id is the frame's arg1 (what the poll changes besides is what the
\* poll that reads nothing changes as well); when no connection in use has
\* that local id, be it the stale local id of an UNUSED slot, the frame
\* changes no connection, fires no event for a connection and sends nothing.
C13_OneAddressee == []C13_Frame /\ [][C13_Payload]_vars

\* both slots are UNUSED and still hold the local ids 1 and 2; a poll has
\* read a frame for one of them and did nothing
C13_Witness ==
    /\ op = PollOp("message")
    /\ LinkUp
    /\ \A i \in Slots : ~InUse(connections[i]) /\ connections[i].localID = i + 1
    /\ log = <<>>

\* what a call that logged lg did after it had done what is in base
LogSince(base, lg) == SubSeq(lg, Len(base) + 1, Len(lg))

\* the effect of an OKAY with the given arg0 on slot i: before and after are
\* the record when the frame is handled and when the poll returns, fired the
\* part of the log the frame added
C14_Effect(i, arg0, before, after, fired) ==
    /\ before.status = "OPENING" =>
          /\ after = [before EXCEPT !.status = "OPEN", !.remoteID = arg0]
          /\ fired = <<Ev(i, "ADB_CONNECTION_OPEN", 0, ExpectedCalls(i))>>
    /\ before.status = "WRITING" =>
          /\ after = [before EXCEPT !.status = "OPEN"]
          /\ fired = <<>>
    /\ before.status \in {"CLOSED", "OPEN"} =>
          /\ after = before
          /\ fired = <<>>

\* C14: an OKAY addressed to a connection that is CLOSED or OPEN when the
\* frame is handled changes neither its status nor its remote id and fires
\* no event; addressed to a connection that is OPENING it makes it OPEN,
\* records arg0 as its remote id and fires exactly one ADB_CONNECTION_OPEN;
\* addressed to a connection that is WRITING it makes it OPEN and fires no
\* event.
C14_OkayEffect ==
    pc = "idle" /\ adbDevice /= NULL =>
        \A wr \in PollWrites(NoEvent) :
            \E idle \in {PollResult(NoEvent, wr, NoHdr, Quiet)} :
                \A i \in Slots, arg0 \in {RemoteID, RemoteID + 1} :
                    InUse(idle.conns[i]) =>
                        \E r \in {PollResult(NoEvent, wr,
                                              Read(Hdr(A_OKAY, arg0, i + 1, 0)), Quiet)} :
                            /\ SubSeq(r.log, 1, Len(idle.log)) = idle.log
                            /\ r.cur = NoConn
                            /\ C14_Effect(i, arg0, idle.conns[i], r.conns[i],
                                          LogSince(idle.log, r.log))

\* the OKAY that answers the OPEN of slot 0 has made it OPEN with the peer's
\* id, while slot 1 waits for an OKAY to its write
C14_Witness ==
    /\ op = PollOp("message")
    /\ log = <<Ev(0, "ADB_CONNECTION_OPEN", 0, <<ConnHandler>>)>>
    /\ connections[0].status = "OPEN"
    /\ connections[0].remoteID = RemoteID
    /\ connections[1].status = "WRITING"

\* the frames for slot i that the transition table does not list for a
\* connection in the given status
UnlistedFrames(i, status) ==
    (IF status = "CLOSED" THEN {Hdr(A_CLSE, RemoteID, i + 1, 0)} ELSE {})
    \cup (IF status \in {"CLOSED", "OPENING", "WRITING"}
          THEN {Hdr(A_WRTE, RemoteID, i + 1, n) : n \in {0, ADB_USB_PACKETSIZE}}
          ELSE {})

\* C15: a CLOSE addressed to a connection that is CLOSED when the frame is
\* handled, and a WRITE addressed to a connection that is CLOSED, OPENING or
\* WRITING, are no-ops: the poll changes no connection, fires no event and
\* sends no frame beyond what the poll that reads nothing does, and
\* adb_handleWrite is not entered.
C15_UnlistedNoOps ==
    pc = "idle" /\ adbDevice /= NULL =>
        \A wr \in PollWrites(NoEvent) :
            \E idle \in {PollResult(NoEvent, wr, NoHdr, Quiet)} :
                \A i \in Slots :
                    \A f \in UnlistedFrames(i, idle.conns[i].status) :
                        \E r \in {PollResult(NoEvent, wr, Read(f), Quiet)} :
                            /\ r.conns = idle.conns
                            /\ r.log = idle.log
                            /\ r.cur = NoConn

\* the last call was a poll in which the write of the OPEN for slot i failed
OpenFailed(i) ==
    /\ op.name = "poll"
    /\ \E k \in DOMAIN log :
          /\ log[k].k = "tx" /\ log[k].cmd = A_OPEN
          /\ log[k].a0 = connections[i].localID
          /\ log[k].sent /= "all"

\* a poll writes at most one OPEN for a connection
C16_OncePerPoll ==
    \A i \in Slots : OpensWritten(log', connections'[i].localID) <= 1

\* C16: when the write of an OPEN fails, the poll does not write it again,
\* and, with the device attached throughout and no CLOSE received, a later
\* poll (after the clock has advanced) writes an OPEN for the connection
\* again.
C16_FailedOpenRetried ==
    /\ [][C16_OncePerPoll]_vars
    /\ \A i \in Slots :
          OpenFailed(i) ~> (op.name = "tick" /\ <>(op.name = "poll" /\ OpenSent(log, connections[i])))

\* ceil(l / p)
CeilDiv(l, p) == (l + p - 1) \div p

\* C17: while adb_handleWrite reassembles a payload, whatever the reads
\* return, dataRead never exceeds dataSize, no more than
\* ceil(dataSize / ADB_USB_PACKETSIZE) ADB_CONNECTION_RECEIVE events are
\* fired, and the loop goes on reading exactly as long as dataRead has not
\* reached dataSize.
C17_ReceiveBounded ==
    pc = "recv" =>
        /\ connections[cur].dataRead <= connections[cur].dataSize
        /\ Len(ReceivedChunks(log, cur))
              <= CeilDiv(connections[cur].dataSize, ADB_USB_PACKETSIZE)
        /\ (bytesLeft > 0) <=> (connections[cur].dataRead < connections[cur].dataSize)

\* C18: every call of adb_poll returns: adb_handleWrite, once entered,
\* finishes, whatever the payload reads return.
C18_PollTerminates == (pc = "recv") ~> (pc = "idle")

\* the messages with the given command in lg
Written(lg, command) == {k \in DOMAIN lg : lg[k].k = "tx" /\ lg[k].cmd = command}

\* what adb_poll does after usb_poll has delivered event e and left the
\* state u: r is the state when the call returns or reaches the first
\* payload read
C19_Step(u, r) ==
    /\ u.adbDevice = NULL =>
          /\ r.log = u.log
          /\ \A k \in DOMAIN r.log : r.log[k].k /= "tx"
          /\ r.conns = u.conns
          /\ r.connected = u.connected
    /\ u.adbDevice /= NULL /\ ~u.connected =>
          /\ Cardinality(Written(r.log, A_CNXN)) = 1
          /\ Written(r.log, A_OPEN) = {}
    /\ u.adbDevice /= NULL /\ u.connected => Written(r.log, A_CNXN) = {}
    /\ Written(r.log, A_OPEN) /= {} => u.connected /\ r.connected

\* the headers a poll may read next
C19_Reads == {NoHdr, Banner, Read(Hdr(A_OKAY, RemoteID, 1, 0))}

\* C19: a poll with a device attached (once usb_poll has delivered the
\* hot-plug events) writes exactly one CNXN and no OPEN when connected is
\* false, and no CNXN when connected is true; a poll with no device attached
\* writes nothing, fires no event and changes no connection (beyond what the
\* hot-plug handler did when the device was detached in that poll).  So an
\* OPEN is written only while connected is true.
C19_Handshake ==
    pc = "idle" =>
        \A e \in UsbEvents :
            \E u \in {adb_usbEventHandler(World(adbDevice, connected, eventHandler,
                                                connections, <<>>), e, Quiet)} :
                /\ u.adbDevice /= NULL => u.connected = connected
                /\ \A wr \in PollWrites(e), rd \in PollReads(e, C19_Reads) :
                       C19_Step(u, PollResult(e, wr, rd, Quiet))

\* a poll of the attached device before the peer has answered: the CNXN
\* went out, and the connection in slot 0, whose retry is due, is still
\* CLOSED
C19_Witness ==
    /\ op = PollOp("none")
    /\ adbDevice /= NULL
    /\ ~connected
    /\ Cardinality(Written(log, A_CNXN)) = 1
    /\ Len(log) = 1
    /\ connections[0].status = "CLOSED"
    /\ Elapsed(connections[0]) > ADB_CONNECTION_RETRY_TIME

\* the connection in slot i has a WRITE of its own unacknowledged: it is
\* WRITING, or RECEIVING for the time a WRITE frame addressed to it is
\* handled and WRITING before
AwaitsOkay(i) ==
    \/ connections[i].status = "WRITING"
    \/ /\ connections[i].status = "RECEIVING"
       /\ pc = "recv" /\ cur = i /\ previousStatus = "WRITING"

\* a successful write on an OPEN connection writes one WRTE with the local
\* and the remote id and makes the connection WRITING
C20_Sent ==
    WriteStep /\ ret' = 0 /\ connections[op'.c].status = "OPEN" =>
        /\ Len(log') = Len(CallLog) + 1
        /\ log'[Len(log')].k = "tx"
        /\ log'[Len(log')].cmd = A_WRTE
        /\ log'[Len(log')].a0 = connections[op'.c].localID
        /\ log'[Len(log')].a1 = connections[op'.c].remoteID
        /\ log'[Len(log')].sent = "all"
        /\ connections'[op'.c].status = "WRITING"

\* the unacknowledged WRITE ends only with an OKAY or a CLOSE addressed to
\* the connection or with the detach of the device
C20_Stays ==
    \A i \in Slots :
        AwaitsOkay(i) /\ ~AwaitsOkay(i)' =>
            \/ DetachStep
            \/ /\ PollStart
               /\ \E wr \in PollWrites(NoEvent), c \in {A_OKAY, A_CLSE},
                     hb \in {Quiet} \cup Behaviours(ReentryCalls) :
                      adb_poll(NoEvent, wr, Read(Hdr(c, RemoteID, i + 1, 0)), hb)

\* a WRTE for slot i was handed to the transport in full
WriteSent(lg, i) ==
    \E k \in DOMAIN lg :
        lg[k].k = "tx" /\ lg[k].cmd = A_WRTE /\ lg[k].a0 = i + 1 /\ lg[k].sent = "all"

\* a write that a handler made while adb_poll called it, on a connection
\* that this poll does not close, leaves the connection WRITING when the
\* poll returns
C20_FromHandler ==
    \A i \in Slots :
        /\ PollStart
        /\ WriteSent(log', i)
        /\ ~DetachStep
        /\ EventsFor(log', i, {"ADB_CONNECTION_CLOSE", "ADB_CONNECTION_FAILED"}) = {}
        => connections'[i].status = "WRITING"

\* until then every write on the connection fails and writes nothing
C20_Refused ==
    WriteStep /\ AwaitsOkay(op'.c) =>
        /\ ret' /= 0
        /\ log' = CallLog
        /\ connections' = connections

\* C20: a successful adb_write or adb_writeString on an OPEN connection
\* writes exactly one WRTE(local id, remote id) and makes the connection
\* WRITING; from then until an OKAY or a CLOSE addressed to it is read or the
\* device is detached the connection stays WRITING, however much time passes
\* (it is RECEIVING while a WRITE frame addressed to it is handled and
\* WRITING again when that poll returns), and every write on it fails
\* without writing a frame.
C20_OneWriteInFlight ==
    [][C20_Sent /\ C20_Stays /\ C20_Refused /\ C20_FromHandler]_vars

----------------------------------------------------------------------------
(* C21 *)

\* a connection that is in use on the link: neither UNUSED nor CLOSED
OnLink(c) == c.status \in {"OPENING", "OPEN", "WRITING", "RECEIVING"}

\* connected being true implies that a transport is attached
C21_ConnectedHasTransport == Idle /\ connected => adbDevice /= NULL

\* connected being false implies that every connection is UNUSED or CLOSED
C21_DownMeansClosed == Idle /\ ~connected => \A i \in Slots : ~OnLink(connections[i])

\* C21: between two calls, whatever the sequence of adb_init (also a
\* repeated one), adb_addConnection, adb_write, adb_poll, attach and detach
\* before: when connected is true a transport is attached, and when
\* connected is false every connection is UNUSED or CLOSED.
C21_LinkConsistent == C21_ConnectedHasTransport /\ C21_DownMeansClosed

====
